---- MODULE Spec2Model ----
(***************************************************************************)
(* Model of the area-monitoring pipeline of the YOLO inference GUI:        *)
(*   src/data_processor.py   gap cleaning and the windowed trend detector  *)
(*   src/video_processor.py  frame loop, frame-pair aggregator, smoother   *)
(*   src/app.py              session state machine, detection cycle,       *)
(*                           alert escalation, refresh and watch threads   *)
(*                                                                         *)
(* Numbers.  Python floats are modelled as exact rationals <<n, d>> with   *)
(* d > 0 in lowest terms; NaN is <<0, 0>>.  Wall-clock readings            *)
(* (time.time()) are whole seconds.  None is -1 for times and frame ids.   *)
(***************************************************************************)
EXTENDS Integers, Sequences, FiniteSets, TLC

(***************************************************************************)
(* Exact rational arithmetic standing in for float arithmetic.             *)
(***************************************************************************)
Abs(i) == IF i < 0 THEN 0 - i ELSE i

RECURSIVE GCD(_, _)
GCD(a, b) == IF b = 0 THEN a ELSE GCD(b, a % b)

NaN == <<0, 0>>
IsNaN(x) == x[2] = 0

Rat(n, d) ==
    LET g == GCD(Abs(n), Abs(d))
        s == IF d < 0 THEN 0 - 1 ELSE 1
    IN  IF d = 0 THEN NaN ELSE <<(s * n) \div g, (s * d) \div g>>

RInt(i) == <<i, 1>>
RAdd(x, y) == IF IsNaN(x) \/ IsNaN(y) THEN NaN
              ELSE Rat(x[1] * y[2] + y[1] * x[2], x[2] * y[2])
RSub(x, y) == IF IsNaN(x) \/ IsNaN(y) THEN NaN
              ELSE Rat(x[1] * y[2] - y[1] * x[2], x[2] * y[2])
RMul(x, y) == IF IsNaN(x) \/ IsNaN(y) THEN NaN
              ELSE Rat(x[1] * y[1], x[2] * y[2])
\* x / y; only used with y # 0
RDiv(x, y) == IF IsNaN(x) \/ IsNaN(y) THEN NaN
              ELSE Rat(x[1] * y[2], x[2] * y[1])
RAbs(x) == <<Abs(x[1]), x[2]>>
\* comparisons with a NaN operand are false, as for floats
RLt(x, y) == ~IsNaN(x) /\ ~IsNaN(y) /\ x[1] * y[2] < y[1] * x[2]
RLe(x, y) == ~IsNaN(x) /\ ~IsNaN(y) /\ x[1] * y[2] <= y[1] * x[2]
\* int(x) for x >= 0
RFloor(x) == x[1] \div x[2]

RECURSIVE SumSeq(_)
SumSeq(s) == IF s = <<>> THEN RInt(0) ELSE RAdd(Head(s), SumSeq(Tail(s)))

\* the entries of s at the positions in the index set I, in order
RECURSIVE SelectIdx(_, _, _)
SelectIdx(s, I, i) ==
    IF i > Len(s) THEN <<>>
    ELSE IF i \in I THEN <<s[i]>> \o SelectIdx(s, I, i + 1)
    ELSE SelectIdx(s, I, i + 1)

NotNaNs(s) == SelectSeq(s, LAMBDA x : ~IsNaN(x))

\* np.nanmean: the mean of the entries that are not NaN; NaN when there is none
nanmean(s) ==
    LET v == NotNaNs(s)
    IN  IF v = <<>> THEN NaN ELSE RDiv(SumSeq(v), RInt(Len(v)))

(***************************************************************************)
(* DataProcessor.check_area_trend_timebased (src/data_processor.py)        *)
(***************************************************************************)
\* detector parameters as passed by check_and_handle_ng
minutes_3 == 3
epsilon_3 == <<15, 100>>
cooldown_3 == 180
minutes_5 == 4
epsilon_5 == <<5, 100>>
cooldown_5 == 210
overlap_ratio_default == <<7, 10>>

Detector3 == [minutes |-> minutes_3, epsilon |-> epsilon_3,
              overlap_ratio |-> overlap_ratio_default, cooldown |-> cooldown_3]
Detector5AsWarning ==
    [minutes |-> minutes_3, epsilon |-> epsilon_3,
     overlap_ratio |-> overlap_ratio_default, cooldown |-> cooldown_3]
Detector5 == [minutes |-> minutes_5, epsilon |-> epsilon_5,
              overlap_ratio |-> overlap_ratio_default, cooldown |-> cooldown_5]

L_sec(minutes) == minutes * 60
\* step_size = int(L_sec * (1 - overlap_ratio))
step_size(minutes, overlap_ratio) ==
    RFloor(RMul(RInt(L_sec(minutes)), RSub(RInt(1), overlap_ratio)))

\* areas[(timestamps >= lo) & (timestamps < hi)]
WindowOpenEnded(areas, timestamps, lo, hi) ==
    SelectIdx(areas,
              {i \in DOMAIN timestamps : RLe(RInt(lo), timestamps[i])},
              1)
Window(areas, timestamps, lo, hi) ==
    SelectIdx(areas,
              {i \in DOMAIN timestamps :
                   RLe(RInt(lo), timestamps[i]) /\ RLt(timestamps[i], RInt(hi))},
              1)

\* "NG" if abs(ratio - 1) < epsilon else "NORMAL"
FlatStatusFlipped(ratio, epsilon) ==
    IF RLt(RAbs(RSub(ratio, RInt(1))), epsilon) THEN "NORMAL" ELSE "NG"
FlatStatus(ratio, epsilon) ==
    IF RLt(RAbs(RSub(ratio, RInt(1))), epsilon) THEN "NG" ELSE "NORMAL"

\* status == "NG" and (t_now - last_ng_time) <= cooldown; last_ng_time is
\* <<FALSE, 0>> for -inf and <<TRUE, t>> for a time t
CooldownNever(status, t_now, last_ng_time, cooldown) == FALSE
InCooldown(status, t_now, last_ng_time, cooldown) ==
    status = "NG" /\ last_ng_time[1] /\ t_now - last_ng_time[2] <= cooldown

\* if prev_avg > 0: ... results.append(...)
HasRatioGrowing(prev_avg, curr_avg) == RLt(prev_avg, curr_avg)
HasRatio(prev_avg, curr_avg) == RLt(RInt(0), prev_avg)

\* one pass of the loop body for t_now: the entry appended, or <<>>
Evaluate(areas, timestamps, p, t_now, last_ng_time) ==
    LET L == L_sec(p.minutes)
        t_prev == t_now - L
        prev_window == Window(areas, timestamps, t_prev - L, t_prev)
        curr_window == Window(areas, timestamps, t_prev, t_now)
        prev_avg == nanmean(prev_window)
        curr_avg == nanmean(curr_window)
        ratio == RDiv(curr_avg, prev_avg)
        st0 == FlatStatus(ratio, p.epsilon)
        status == IF InCooldown(st0, t_now, last_ng_time, p.cooldown)
                  THEN "SKIP" ELSE st0
    IN  IF prev_window = <<>> \/ curr_window = <<>> THEN <<>>
        ELSE IF HasRatio(prev_avg, curr_avg)
        THEN << [time_sec |-> t_now, minutes |-> p.minutes,
                 prev_avg_area |-> prev_avg, curr_avg_area |-> curr_avg,
                 ratio |-> ratio, status |-> status] >>
        ELSE <<>>

\* for t_now in range(start, stop, step_size)
RECURSIVE TrendLoop(_, _, _, _, _, _)
TrendLoop(areas, timestamps, p, t_now, stop, last_ng_time) ==
    IF t_now >= stop THEN <<>>
    ELSE LET e == Evaluate(areas, timestamps, p, t_now, last_ng_time)
             last == IF e # <<>> /\ e[1].status = "NG"
                     THEN <<TRUE, t_now>> ELSE last_ng_time
         IN  e \o TrendLoop(areas, timestamps, p,
                            t_now + step_size(p.minutes, p.overlap_ratio),
                            stop, last)

RangeStart(timestamps, p) == RFloor(RAdd(timestamps[1], RInt(L_sec(p.minutes))))
RangeStop(timestamps) == RFloor(RAdd(timestamps[Len(timestamps)], RInt(1)))

\* the boolean mask built from timestamps indexes areas: numpy raises
\* IndexError when the lengths differ and the loop body runs at least once
TrendRaises(areas, timestamps, p) ==
    /\ Len(areas) # 0 /\ Len(timestamps) # 0
    /\ Len(areas) # Len(timestamps)
    /\ RangeStart(timestamps, p) < RangeStop(timestamps)

check_area_trend_timebased(areas, timestamps, p) ==
    IF Len(areas) = 0 \/ Len(timestamps) = 0 THEN <<>>
    ELSE TrendLoop(areas, timestamps, p, RangeStart(timestamps, p),
                   RangeStop(timestamps), <<FALSE, 0>>)

\* [r["time_sec"] for r in results if r["status"] == "NG"]
extract_ng_markers(results) ==
    LET ng == SelectSeq(results, LAMBDA r : r.status = "NG")
    IN  [i \in DOMAIN ng |-> ng[i].time_sec]

(***************************************************************************)
(* DataProcessor.clean_data (src/data_processor.py)                        *)
(***************************************************************************)
gap_limit_default == 3

ValidIdx(areas) == {i \in DOMAIN areas : ~IsNaN(areas[i])}
SetMax(S) == CHOOSE x \in S : \A y \in S : y <= x
SetMin(S) == CHOOSE x \in S : \A y \in S : x <= y

\* limit=gap_limit, limit_direction="both": a missing entry is filled when a
\* valid entry lies at most gap_limit positions before it or after it
Fillable(areas, i, gap_limit) ==
    \E j \in ValidIdx(areas) : Abs(i - j) <= gap_limit

\* method="time": linear in the index between the nearest valid neighbours;
\* the nearest valid value where only one side has one
TimeInterp(areas, timestamps, i) ==
    LET before == {j \in ValidIdx(areas) : j < i}
        after  == {j \in ValidIdx(areas) : j > i}
        a == SetMax(before)
        b == SetMin(after)
    IN  IF before = {} THEN areas[b]
        ELSE IF after = {} THEN areas[a]
        ELSE IF timestamps[a] = timestamps[b] THEN areas[a]
        ELSE RAdd(areas[a],
                  RMul(RSub(areas[b], areas[a]),
                       RDiv(RSub(timestamps[i], timestamps[a]),
                            RSub(timestamps[b], timestamps[a]))))

\* the interpolation alone, without .fillna(0)
clean_data_unfilled(areas, timestamps, gap_limit) ==
    IF Len(areas) = 0 \/ Len(timestamps) = 0 \/ Len(areas) # Len(timestamps)
    THEN areas
    ELSE [i \in DOMAIN areas |->
             IF ~IsNaN(areas[i]) THEN areas[i]
             ELSE IF Fillable(areas, i, gap_limit)
             THEN TimeInterp(areas, timestamps, i)
             ELSE NaN]

clean_data(areas, timestamps, gap_limit) ==
    IF Len(areas) = 0 \/ Len(timestamps) = 0 \/ Len(areas) # Len(timestamps)
    THEN areas
    ELSE [i \in DOMAIN areas |->
             IF ~IsNaN(areas[i]) THEN areas[i]
             ELSE IF Fillable(areas, i, gap_limit)
             THEN TimeInterp(areas, timestamps, i)
             ELSE RInt(0)]

(***************************************************************************)
(* Smoother: pd.Series(avg_areas).rolling(window, min_periods=1).mean()    *)
(* (src/video_processor.py)                                                *)
(***************************************************************************)
Max2(a, b) == IF a > b THEN a ELSE b

rolling_mean(avg, window_size) ==
    [i \in DOMAIN avg |->
        nanmean(SubSeq(avg, Max2(1, i - window_size + 1), i))]

(***************************************************************************)
(* State of YOLOInferenceApp (src/app.py __init__) and of its threads.     *)
(***************************************************************************)
VARIABLES
    is_inference, is_preview, is_monitoring,   \* session flags
    model,                \* TRUE when a YOLO model is loaded
    cap,                  \* [open, pos]: the VideoCapture and its read position
    stream_type,
    video,                \* the source to open: its kind, frames and frame period
    now,                  \* time.time(), whole seconds
    inference_start_time, last_detect_time,
    raw_areas, raw_time_stamps,                \* the per-frame samples
    avg_areas, avg_time_stamps,                \* the Series
    sma_areas, sma_time_stamps,                \* the smoothed series
    frame_group, frame_times,                  \* the 2-slot buffer
    ng_3_times, ng_5_times,                    \* seen warning / alert times
    current_frame, start_monitor_image,        \* frame ids, None when absent
    sma_window_var, nan_gap_var, confidence_var,
    start_button, stop_button, clear_button,   \* TRUE when the button is enabled
    after_queue,          \* callbacks handed to root.after(0, ...), in order
    log_file,             \* rows of ng_log.csv
    beeps, warning_wins, reports,              \* notification and report outputs
    reset_notices,        \* number of auto-reset message boxes shown
    error_boxes,          \* number of error boxes shown by start_inference
    vt, video_thread,     \* frame-processing threads, and the latest one
    rt, wt,               \* refresh (plot_update_loop) and watch threads
    run,                  \* number of inference runs started so far
    dup_hits,             \* alert times a cycle computed again after escalating
    in_areas, in_times, in_det, out_results, fn_pc,  \* a function called alone
    out_again,            \* the result of calling it on its own result
    in_window,            \* the window size passed to the smoother
    main_loop             \* the Tk main loop: idle, inside a handler, or closed

flagVars == <<is_inference, is_preview, is_monitoring>>
srcVars == <<model, cap, stream_type, video>>
timeVars == <<inference_start_time, last_detect_time>>
rawVars == <<raw_areas, raw_time_stamps>>
seriesVars == <<avg_areas, avg_time_stamps>>
smaVars == <<sma_areas, sma_time_stamps>>
bufVars == <<frame_group, frame_times>>
ngVars == <<ng_3_times, ng_5_times, dup_hits>>
imgVars == <<current_frame, start_monitor_image>>
cfgVars == <<sma_window_var, nan_gap_var, confidence_var>>
btnVars == <<start_button, stop_button, clear_button>>
outVars == <<log_file, beeps, warning_wins, reports, reset_notices,
            error_boxes>>
thrVars == <<vt, video_thread, rt, wt>>
fnVars == <<in_areas, in_times, in_det, out_results, fn_pc, out_again,
           in_window>>

vars == <<flagVars, srcVars, now, timeVars, seriesVars, smaVars, bufVars,
          ngVars, imgVars, cfgVars, btnVars, after_queue, outVars, thrVars,
          run, fnVars, rawVars, main_loop>>

None == 0 - 1

\* bounds of the model
MaxVideoThreads == 1
MaxRuns == 2
\* error boxes counted
MaxErrors == 2
MaxQueue == 1

\* program constants
max_failures == 10
max_inference_time == 21600
max_no_detect_time == 3600
log_duration == 300
default_sma_window == 7
default_nan_gap == 10
default_confidence == 68

(***************************************************************************)
(* Inputs: what the detector reports per frame, and the frame period.      *)
(***************************************************************************)
Box(a) == [cls |-> 0, conf |-> 90, area |-> a]
One(a) == << Box(a) >>
NoBox == << >>
\* a low-confidence box and a box of another class: neither qualifies
Noise == << [cls |-> 0, conf |-> 50, area |-> 40], [cls |-> 1, conf |-> 95, area |-> 40] >>

Two(a, b) == << Box(a), Box(b) >>
Twice(f) == <<f, f>>
\* six groups of mean area 20,20,20,30,20,30
StepVideo == Twice(One(20)) \o Twice(One(20)) \o Twice(One(20)) \o
             Twice(One(30)) \o Twice(One(20)) \o Twice(One(30))
\* seven groups of constant area
FlatVideo == Twice(One(20)) \o Twice(One(20)) \o Twice(One(20)) \o
             Twice(One(20)) \o Twice(One(20)) \o Twice(One(20)) \o
             Twice(One(20))
\* a read that returns no frame: ret is False
NoFrame == <<[cls |-> 0 - 1, conf |-> 0, area |-> 0]>>
StreamTypes == {"video", "rtsp"}
\* seconds from one frame to the next
FramePeriods == {60}
\* a file and a live stream that ends, of each long sequence
LongVideos == [kind : StreamTypes, frames : {StepVideo, FlatVideo},
               period : FramePeriods]
\* two short files
ShortVideos == [kind : {"video"},
                frames : { <<One(20), One(30), One(20), Noise>>,
                           <<One(20), NoBox, NoBox, NoBox>> },
                period : FramePeriods]
\* the three kinds of source, each losing its second frame and ending after
\* its third
SourceKinds == {"video", "camera", "rtsp"}
SrcVideos == [kind : SourceKinds,
              frames : { <<One(20), NoFrame, One(20)>> },
              period : FramePeriods]
\* 8 minutes of frames 10 s apart, one object each, its area between 490 and
\* 510: changing with every frame, with every pair of frames, and once
NearConstantVideos ==
    [kind : {"video"},
     frames : { [k \in 1 .. 49 |-> One(IF k % 2 = 1 THEN 490 ELSE 510)],
                [k \in 1 .. 49 |-> One(IF (k - 1) % 4 < 2 THEN 510 ELSE 490)],
                [k \in 1 .. 49 |-> One(IF k <= 24 THEN 490 ELSE 510)] },
     period : {10}]
SmaWindows == {3, 7}
\* positions of the confidence scale (percent) and of the gap spinbox (s)
Confidences == {68, 95}
NanGaps == {10, 30}
\* a frame with two objects, a group without detection long after the last
\* one, and a detection again
GapVideo == <<Two(20, 30), One(20), NoBox, Noise, One(30), NoBox>>
\* frames in quick succession: a brief miss, then a lasting one
BriefMissVideo == <<One(20), NoBox, NoBox, NoBox, NoBox, NoBox, One(30), NoBox>>
\* slow sources, a frame an hour: one with an object in every frame, one
\* that loses it after the first frame
SteadyVideo == Twice(One(20)) \o Twice(One(20)) \o Twice(One(20)) \o
               Twice(One(20))
SilentVideo == <<One(20), NoBox, NoBox, NoBox, NoBox>>
WatchVideos == [kind : {"video"}, frames : {SteadyVideo, SilentVideo},
                period : {3600}]
PipeVideos == { [kind |-> "video", frames |-> GapVideo, period |-> 60],
                [kind |-> "video", frames |-> BriefMissVideo, period |-> 5] }

(***************************************************************************)
(* Helpers of the session model.                                           *)
(***************************************************************************)
\* the frame threads that can be started: the slots of the thread table
VThreads == DOMAIN vt
Runs == 1 .. MaxRuns

NoVThread == [pc |-> "none", conf_thres |-> 0, nan_gap |-> 0,
              failures |-> 0, frame |-> None]
NoLoopThread == [pc |-> "none", seen_run |-> 0]

IsAlive(th) == th # None /\ vt[th].pc \notin {"none", "dead"}
FreeSlots == {th \in VThreads : vt[th].pc = "none"}
NewThread == SetMin(FreeSlots)

\* threading.Thread(target=process_video).start(); the thread reads
\* confidence_var and nan_gap_var once, before its loop
Spawned(tab, th) ==
    [tab EXCEPT ![th] = [pc |-> "loop", conf_thres |-> confidence_var,
                         nan_gap |-> nan_gap_var, failures |-> 0,
                         frame |-> None]]

CapOpen == cap.open
ClosedCap == [open |-> FALSE, pos |-> 0]

\* cls_id == 0 and conf > conf_thres
Qualifies(box, conf_thres) == box.cls = 0 /\ box.conf > conf_thres
QualifyingAreas(boxes, conf_thres) ==
    LET q == SelectSeq(boxes, LAMBDA b : Qualifies(b, conf_thres))
    IN  [i \in DOMAIN q |-> RInt(q[i].area)]

\* np.mean(frame_times)
mean(ts) == RDiv(SumSeq(ts), RInt(Len(ts)))

\* time.strftime("%Y%m%d%H%M", time.localtime(x)): x to the minute
strftime(x) == x \div 60

Entry(fn) == [fn |-> fn, rs |-> <<0, 0>>, run |-> 0, t |-> 0]
HeaderRow == [kind |-> "header", range |-> <<0, 0>>, duration |-> 0,
              run |-> 0, t |-> 0]

ToSet(s) == {s[i] : i \in DOMAIN s}
Perms(S) == {f \in [1 .. Cardinality(S) -> S] :
                 \A i, j \in DOMAIN f : i # j => f[i] # f[j]}

Quiet == \A th \in VThreads : vt[th].pc \in {"none", "loop", "dead"}

(***************************************************************************)
(* Init: the state after YOLOInferenceApp.__init__ and setup_ui.           *)
(***************************************************************************)
FnIdle ==
    /\ in_areas = <<>> /\ in_times = <<>> /\ in_det = Detector3
    /\ out_results = <<>> /\ fn_pc = "idle" /\ out_again = <<>>
    /\ in_window = default_sma_window

\* the state after __init__, with the number of frame threads that can be
\* started
AppInitWith(slots) ==
    /\ is_inference = FALSE /\ is_preview = FALSE /\ is_monitoring = FALSE
    /\ model = TRUE
    /\ cap = ClosedCap /\ stream_type = "none"
    /\ now = 0
    /\ inference_start_time = None /\ last_detect_time = None
    /\ raw_areas = <<>> /\ raw_time_stamps = <<>>
    /\ avg_areas = <<>> /\ avg_time_stamps = <<>>
    /\ sma_areas = <<>> /\ sma_time_stamps = <<>>
    /\ frame_group = <<>> /\ frame_times = <<>>
    /\ ng_3_times = {} /\ ng_5_times = {} /\ dup_hits = {}
    /\ current_frame = None /\ start_monitor_image = None
    /\ sma_window_var = default_sma_window
    /\ nan_gap_var = default_nan_gap
    /\ confidence_var = default_confidence
    /\ start_button = TRUE /\ stop_button = FALSE /\ clear_button = TRUE
    /\ after_queue = <<>>
    /\ log_file = <<>> /\ beeps = <<>> /\ warning_wins = <<>> /\ reports = <<>>
    /\ reset_notices = 0 /\ error_boxes = 0
    /\ main_loop = "idle"
    /\ vt = [th \in 1 .. slots |-> NoVThread] /\ video_thread = None
    /\ rt = [r \in Runs |-> NoLoopThread]
    /\ wt = [r \in Runs |-> NoLoopThread]
    /\ run = 0

AppInit == AppInitWith(MaxVideoThreads)

Init == AppInit /\ FnIdle /\ video \in ShortVideos
InitEsc == AppInit /\ FnIdle /\ video \in LongVideos
InitPipe == AppInit /\ FnIdle /\ video \in PipeVideos
InitSrc == AppInit /\ FnIdle /\ video \in SrcVideos
InitScenario == AppInit /\ FnIdle /\ video \in NearConstantVideos
\* a short file, and room for a frame thread beside an earlier one
InitTwo ==
    /\ AppInitWith(MaxVideoThreads + 1) /\ FnIdle
    /\ video = [kind |-> "video", frames |-> <<One(20), NoBox>>, period |-> 60]
InitWatch == AppInit /\ FnIdle /\ video \in WatchVideos

(***************************************************************************)
(* GUI handlers (src/app.py); each runs to completion on the Tk main loop. *)
(***************************************************************************)
\* upload_video / open_camera / open_rtsp_stream, then start_preview
OpenSource ==
    /\ ~(is_inference \/ is_preview)
    /\ FreeSlots # {}
    /\ cap' = [open |-> TRUE, pos |-> 1]
    /\ stream_type' = video.kind
    /\ is_preview' = TRUE
    /\ vt' = Spawned(vt, NewThread)
    /\ video_thread' = NewThread
    /\ UNCHANGED <<is_inference, is_monitoring, model, video, now, timeVars,
                   seriesVars, smaVars, bufVars, ngVars, imgVars, cfgVars,
                   btnVars, after_queue, outVars, rt, wt, run, fnVars, rawVars, main_loop>>

\* the source cannot be opened: cap is left unusable, no preview starts
OpenSourceFails ==
    /\ ~(is_inference \/ is_preview)
    /\ cap' = ClosedCap
    /\ UNCHANGED <<flagVars, model, stream_type, video, now, timeVars,
                   seriesVars, smaVars, bufVars, ngVars, imgVars, cfgVars,
                   btnVars, after_queue, outVars, thrVars, run, fnVars, rawVars, main_loop>>

\* toggle_monitoring
ToggleMonitoring ==
    /\ is_inference
    /\ is_monitoring' = ~is_monitoring
    /\ start_monitor_image' =
          IF ~is_monitoring
          THEN (IF current_frame # None THEN current_frame
                ELSE start_monitor_image)
          ELSE None
    /\ UNCHANGED <<is_inference, is_preview, srcVars, now, timeVars,
                   seriesVars, smaVars, bufVars, ngVars, current_frame,
                   cfgVars, btnVars, after_queue, outVars, thrVars, run,
                   fnVars, rawVars, main_loop>>

\* toggle_monitoring in two steps, between which the frame thread can run:
\* the test of is_inference (lines 298-300) ...
ToggleMonitoringBegin ==
    /\ main_loop = "idle"
    /\ is_inference
    /\ main_loop' = "toggle_monitoring"
    /\ UNCHANGED <<flagVars, srcVars, now, timeVars, seriesVars, smaVars,
                   bufVars, ngVars, imgVars, cfgVars, btnVars, after_queue,
                   outVars, thrVars, run, fnVars, rawVars>>

\* ... and the assignments (lines 302-314)
ToggleMonitoringEnd ==
    /\ main_loop = "toggle_monitoring"
    /\ is_monitoring' = ~is_monitoring
    /\ start_monitor_image' =
          IF ~is_monitoring
          THEN (IF current_frame # None THEN current_frame
                ELSE start_monitor_image)
          ELSE None
    /\ main_loop' = "idle"
    /\ UNCHANGED <<is_inference, is_preview, srcVars, now, timeVars,
                   seriesVars, smaVars, bufVars, ngVars, current_frame,
                   cfgVars, btnVars, after_queue, outVars, thrVars, run,
                   fnVars, rawVars>>

\* the values stop_processing assigns
stop_processing ==
    [is_inference |-> FALSE, is_preview |-> FALSE, is_monitoring |-> FALSE,
     cap |-> ClosedCap]

StopProcessing ==
    /\ is_inference' = stop_processing.is_inference
    /\ is_preview' = stop_processing.is_preview
    /\ is_monitoring' = stop_processing.is_monitoring
    /\ cap' = stop_processing.cap

\* the values reset_area_data assigns
reset_area_data ==
    [raw_areas |-> <<>>, raw_time_stamps |-> <<>>,
     avg_areas |-> <<>>, avg_time_stamps |-> <<>>,
     sma_areas |-> <<>>, sma_time_stamps |-> <<>>,
     frame_group |-> <<>>, frame_times |-> <<>>,
     last_detect_time |-> None, ng_3_times |-> {}, ng_5_times |-> {},
     start_monitor_image |-> None]

ResetAreaData ==
    /\ raw_areas' = reset_area_data.raw_areas
    /\ raw_time_stamps' = reset_area_data.raw_time_stamps
    /\ avg_areas' = reset_area_data.avg_areas
    /\ avg_time_stamps' = reset_area_data.avg_time_stamps
    /\ sma_areas' = reset_area_data.sma_areas
    /\ sma_time_stamps' = reset_area_data.sma_time_stamps
    /\ frame_group' = reset_area_data.frame_group
    /\ frame_times' = reset_area_data.frame_times
    /\ last_detect_time' = reset_area_data.last_detect_time
    /\ ng_3_times' = reset_area_data.ng_3_times
    /\ ng_5_times' = reset_area_data.ng_5_times
    /\ start_monitor_image' = reset_area_data.start_monitor_image

\* if not self.model: ... return; if not self.cap or not self.cap.isOpened():
\* ... return
StartRefusedWithoutModel == ~model
StartRefused == ~model \/ ~CapOpen

\* start_inference when it returns at line 320 or 324, after its error box
StartInferenceFails ==
    /\ start_button
    /\ StartRefused
    /\ error_boxes < MaxErrors
    /\ error_boxes' = error_boxes + 1
    /\ UNCHANGED <<flagVars, srcVars, now, timeVars, seriesVars, smaVars,
                   bufVars, ngVars, imgVars, cfgVars, btnVars, after_queue,
                   log_file, beeps, warning_wins, reports, reset_notices,
                   thrVars, run, fnVars, rawVars, main_loop>>

\* start_inference, with reset_area_data
StartInference ==
    /\ start_button
    /\ ~StartRefused
    /\ run < MaxRuns
    /\ ~IsAlive(video_thread) => FreeSlots # {}
    /\ ResetAreaData
    \* the new run
    /\ is_inference' = TRUE
    /\ inference_start_time' = now
    /\ start_button' = FALSE /\ stop_button' = TRUE /\ clear_button' = FALSE
    /\ IF IsAlive(video_thread)
       THEN UNCHANGED <<vt, video_thread>>
       ELSE vt' = Spawned(vt, NewThread) /\ video_thread' = NewThread
    /\ run' = run + 1
    /\ rt' = [rt EXCEPT ![run + 1] = [pc |-> "check", seen_run |-> run + 1]]
    /\ wt' = [wt EXCEPT ![run + 1] = [pc |-> "check", seen_run |-> run + 1]]
    /\ UNCHANGED <<is_preview, is_monitoring, srcVars, now, dup_hits,
                   current_frame, cfgVars, after_queue, outVars, fnVars, main_loop>>

\* start_inference in two steps, between which the other threads can run:
\* up to is_inference = True (lines 316-337) ...
StartInferenceBegin ==
    /\ main_loop = "idle"
    /\ start_button
    /\ ~StartRefused
    /\ run < MaxRuns
    /\ ResetAreaData
    /\ is_inference' = TRUE
    /\ main_loop' = "start_inference"
    /\ UNCHANGED <<is_preview, is_monitoring, srcVars, now,
                   inference_start_time, dup_hits, current_frame, cfgVars,
                   btnVars, after_queue, outVars, thrVars, run, fnVars>>

\* ... and from inference_start_time = time.time() on (lines 338-359)
StartInferenceEnd ==
    /\ main_loop = "start_inference"
    /\ ~IsAlive(video_thread) => FreeSlots # {}
    /\ inference_start_time' = now
    /\ start_button' = FALSE /\ stop_button' = TRUE /\ clear_button' = FALSE
    /\ IF IsAlive(video_thread)
       THEN UNCHANGED <<vt, video_thread>>
       ELSE vt' = Spawned(vt, NewThread) /\ video_thread' = NewThread
    /\ run' = run + 1
    /\ rt' = [rt EXCEPT ![run + 1] = [pc |-> "check", seen_run |-> run + 1]]
    /\ wt' = [wt EXCEPT ![run + 1] = [pc |-> "check", seen_run |-> run + 1]]
    /\ main_loop' = "idle"
    /\ UNCHANGED <<flagVars, srcVars, now, last_detect_time, rawVars,
                   seriesVars, smaVars, bufVars, ngVars, imgVars, cfgVars,
                   after_queue, outVars, fnVars>>

\* stop_inference
StopInference ==
    /\ stop_button
    /\ is_inference' = FALSE
    /\ is_monitoring' = FALSE
    /\ start_button' = TRUE /\ stop_button' = FALSE /\ clear_button' = TRUE
    /\ is_preview' = TRUE
    /\ UNCHANGED <<srcVars, now, timeVars, seriesVars, smaVars, bufVars,
                   ngVars, imgVars, cfgVars, after_queue, outVars, thrVars,
                   run, fnVars, rawVars, main_loop>>

\* clear_all_data: stop_processing when running (the user confirms), then
\* reset_area_data and clear_memory_and_resources
ClearAllDataTo(loaded) ==
    /\ clear_button
    /\ IF is_inference \/ is_preview
       THEN StopProcessing
       ELSE UNCHANGED <<flagVars, cap>>
    /\ ResetAreaData
    /\ model' = loaded
    /\ UNCHANGED <<stream_type, video, now, inference_start_time, dup_hits,
                   current_frame, cfgVars, btnVars, after_queue, outVars,
                   thrVars, run, fnVars, main_loop>>

\* the model is loaded again at the end of clear_memory_and_resources
ClearAllData == ClearAllDataTo(TRUE)

\* the SMA window spinbox
ChangeSmaWindow ==
    /\ \E w \in SmaWindows : w # sma_window_var /\ sma_window_var' = w
    /\ UNCHANGED <<flagVars, srcVars, now, timeVars, seriesVars, smaVars,
                   bufVars, ngVars, imgVars, nan_gap_var, confidence_var,
                   btnVars, after_queue, outVars, thrVars, run, fnVars, rawVars, main_loop>>

\* the confidence scale
ChangeConfidence ==
    /\ \E c \in Confidences : c # confidence_var /\ confidence_var' = c
    /\ UNCHANGED <<flagVars, srcVars, now, timeVars, seriesVars, smaVars,
                   bufVars, ngVars, imgVars, sma_window_var, nan_gap_var,
                   btnVars, after_queue, outVars, thrVars, run, fnVars,
                   rawVars, main_loop>>

\* the NaN gap spinbox
ChangeNanGap ==
    /\ \E g \in NanGaps : g # nan_gap_var /\ nan_gap_var' = g
    /\ UNCHANGED <<flagVars, srcVars, now, timeVars, seriesVars, smaVars,
                   bufVars, ngVars, imgVars, sma_window_var, confidence_var,
                   btnVars, after_queue, outVars, thrVars, run, fnVars,
                   rawVars, main_loop>>

\* ResourceManager.on_closing, the handler of WM_DELETE_WINDOW:
\* stop_processing, the model is deleted, root.destroy() ends the main loop
OnClosing ==
    /\ main_loop = "idle"
    /\ StopProcessing
    /\ model' = FALSE
    /\ main_loop' = "closed"
    /\ UNCHANGED <<stream_type, video, now, timeVars, seriesVars, smaVars,
                   bufVars, ngVars, imgVars, cfgVars, btnVars, after_queue,
                   outVars, thrVars, run, fnVars, rawVars>>

(***************************************************************************)
(* Callbacks run by the Tk main loop, queued with root.after(0, ...).      *)
(***************************************************************************)
HeadIs(fn) == after_queue # <<>> /\ Head(after_queue).fn = fn

\* new_ng_5 = set(ng_5) - self.ng_5_times
NewNg5NoDedup(ng_5, seen) == ng_5
NewNg5(ng_5, seen) == ng_5 \ seen

\* range_str = f"{start_str}-{ng_str}"
range_str(t) == <<strftime(inference_start_time), strftime(inference_start_time + t)>>

LogRow(t) == [kind |-> "row", range |-> range_str(t), duration |-> log_duration,
              run |-> run, t |-> t]
WarnEntry(t) == [fn |-> "warn", rs |-> range_str(t), run |-> run, t |-> t]

\* the rows written for the alert times ord[1..k], with the header first when
\* the file is absent or empty
RowsFor(ord, k) ==
    LET rows == [i \in 1 .. k |-> LogRow(ord[i])]
    IN  IF k > 0 /\ log_file = <<>> THEN <<HeaderRow>> \o rows ELSE rows

\* check_and_handle_ng.  The loop over new_ng_5 writes a row and schedules a
\* warning per alert time; open() or the write may raise at any of them, which
\* ends the handler: k of the new alert times are escalated.
CheckAndHandleNg ==
    /\ HeadIs("check")
    /\ LET cleaned == clean_data(sma_areas, sma_time_stamps, gap_limit_default)
           raises == TrendRaises(cleaned, sma_time_stamps, Detector3)
                     \/ TrendRaises(cleaned, sma_time_stamps, Detector5)
           results_3 == check_area_trend_timebased(cleaned, sma_time_stamps, Detector3)
           results_5 == check_area_trend_timebased(cleaned, sma_time_stamps, Detector5)
           ng_3 == ToSet(extract_ng_markers(results_3))
           ng_5 == ToSet(extract_ng_markers(results_5))
           new_ng_5 == NewNg5(ng_5, ng_5_times)
       IN  IF raises
           THEN /\ after_queue' = Tail(after_queue)
                /\ UNCHANGED <<ngVars, log_file>>
           ELSE /\ ng_3_times' = ng_3_times \cup ng_3
                /\ ng_5_times' = ng_5_times \cup ng_5
                /\ dup_hits' = dup_hits \cup
                       {<<run, t>> : t \in {u \in ng_5 \cap ng_5_times :
                           \E i \in DOMAIN log_file :
                               log_file[i].run = run /\ log_file[i].t = u}}
                /\ \E ord \in Perms(new_ng_5) : \E k \in 0 .. Len(ord) :
                      /\ log_file' = log_file \o RowsFor(ord, k)
                      /\ after_queue' = Tail(after_queue) \o
                                        [i \in 1 .. k |-> WarnEntry(ord[i])]
    /\ UNCHANGED <<flagVars, srcVars, now, timeVars, seriesVars, smaVars,
                   bufVars, imgVars, cfgVars, btnVars, beeps, warning_wins,
                   reports, reset_notices, error_boxes, thrVars, run, fnVars,
                   rawVars, main_loop>>

\* show_non_modal_warning(range_str): the beep thread is started, the report
\* is generated when both images exist, then the window is shown;
\* generate_pdf may raise, which ends the handler before the window
ShowNonModalWarning ==
    /\ HeadIs("warn")
    /\ LET e == Head(after_queue)
           ng_image == current_frame
           ev == [rs |-> e.rs, run |-> e.run, t |-> e.t]
       IN  /\ beeps' = Append(beeps, ev)
           /\ IF start_monitor_image # None /\ ng_image # None
              THEN \/ /\ reports' = Append(reports,
                              [rs |-> e.rs, run |-> e.run, t |-> e.t,
                               img1 |-> start_monitor_image, img2 |-> ng_image])
                      /\ warning_wins' = Append(warning_wins, ev)
                   \/ UNCHANGED <<reports, warning_wins>>
              ELSE /\ UNCHANGED reports
                   /\ warning_wins' = Append(warning_wins, ev)
    /\ after_queue' = Tail(after_queue)
    /\ UNCHANGED <<flagVars, srcVars, now, timeVars, seriesVars, smaVars,
                   bufVars, ngVars, imgVars, cfgVars, btnVars, log_file,
                   reset_notices, error_boxes, thrVars, run, fnVars, rawVars,
                   main_loop>>

\* update_sma_plot: reads the smoothed series and draws it
UpdateSmaPlot ==
    /\ HeadIs("plot")
    /\ after_queue' = Tail(after_queue)
    /\ UNCHANGED <<flagVars, srcVars, now, timeVars, seriesVars, smaVars,
                   bufVars, ngVars, imgVars, cfgVars, btnVars, outVars,
                   thrVars, run, fnVars, rawVars, main_loop>>

\* auto_reset_system: stop_inference, clear_memory_and_resources, and the
\* message box
AutoResetSystem ==
    /\ HeadIs("auto_reset")
    /\ after_queue' = Tail(after_queue)
    /\ is_inference' = FALSE /\ is_monitoring' = FALSE /\ is_preview' = TRUE
    /\ start_button' = TRUE /\ stop_button' = FALSE /\ clear_button' = TRUE
    /\ raw_areas' = <<>> /\ raw_time_stamps' = <<>>
    /\ avg_areas' = <<>> /\ avg_time_stamps' = <<>>
    /\ sma_areas' = <<>> /\ sma_time_stamps' = <<>>
    /\ frame_group' = <<>> /\ frame_times' = <<>>
    /\ model' = TRUE
    /\ reset_notices' = reset_notices + 1
    /\ UNCHANGED <<cap, stream_type, video, now, timeVars, ngVars, imgVars,
                   cfgVars, log_file, beeps, warning_wins, reports,
                   error_boxes, thrVars, run, fnVars, main_loop>>

(***************************************************************************)
(* The frame-processing thread: VideoProcessor.process_video and           *)
(* calculate_average_area_with_sma (src/video_processor.py), one action    *)
(* per stretch of code between two accesses to shared state that another   *)
(* thread can separate.                                                    *)
(***************************************************************************)
SetPc(th, pc) == [vt EXCEPT ![th].pc = pc]

\* ret, frame = self.app.cap.read(): ret is False past the last frame of
\* the source, and where the source delivers no frame
ReadSucceeds ==
    /\ cap.pos <= Len(video.frames)
    /\ video.frames[cap.pos] # NoFrame

\* if self.app.stream_type == "rtsp" and consecutive_failures < max_failures
RetriedInclusive(consecutive_failures) ==
    /\ stream_type = "rtsp"
    /\ consecutive_failures <= max_failures
Retried(consecutive_failures) ==
    /\ stream_type = "rtsp"
    /\ consecutive_failures < max_failures

\* the while condition and cap.read()
VLoop(th) ==
    /\ vt[th].pc = "loop"
    /\ IF ~((is_inference \/ is_preview) /\ CapOpen)
       THEN vt' = SetPc(th, "exit") /\ UNCHANGED cap
       ELSE IF ReadSucceeds
       THEN /\ vt' = [vt EXCEPT ![th].pc = "proc", ![th].failures = 0,
                                ![th].frame = cap.pos]
            /\ cap' = [cap EXCEPT !.pos = cap.pos + 1]
       ELSE /\ cap' = [cap EXCEPT !.pos = IF cap.pos <= Len(video.frames)
                                          THEN cap.pos + 1 ELSE cap.pos]
            /\ IF Retried(vt[th].failures + 1)
               THEN vt' = [vt EXCEPT ![th].failures = vt[th].failures + 1]
               ELSE vt' = [vt EXCEPT ![th].failures = vt[th].failures + 1,
                                     ![th].pc = "exit"]
    /\ UNCHANGED <<flagVars, model, stream_type, video, now, timeVars,
                   seriesVars, smaVars, bufVars, ngVars, imgVars, cfgVars,
                   btnVars, after_queue, outVars, video_thread, rt, wt, run,
                   fnVars, rawVars, main_loop>>

\* elif last_detect_time is not None and
\*      time_sec - (last_detect_time - inference_start_time) > nan_gap
RawGapAlways(time_sec, nan_gap) == TRUE
RawGapElapsed(time_sec, nan_gap) ==
    /\ last_detect_time # None
    /\ time_sec - (last_detect_time - inference_start_time) > nan_gap

\* lines 51-93: in inference mode the detection is appended to the 2-slot
\* buffer, and the sample of the frame to the raw series
VTakeIn(th) ==
    /\ IF is_inference
       THEN LET time_sec == now - inference_start_time
                boxes == video.frames[vt[th].frame]
                current_areas == QualifyingAreas(boxes, vt[th].conf_thres)
            IN  /\ frame_group' = Append(frame_group, boxes)
                /\ frame_times' = Append(frame_times, RInt(time_sec))
                /\ IF current_areas # <<>>
                   THEN /\ raw_areas' = Append(raw_areas, SumSeq(current_areas))
                        /\ raw_time_stamps' =
                              Append(raw_time_stamps, RInt(time_sec))
                        /\ last_detect_time' = now
                   ELSE /\ IF RawGapElapsed(time_sec, vt[th].nan_gap)
                           THEN /\ raw_areas' = Append(raw_areas, NaN)
                                /\ raw_time_stamps' =
                                      Append(raw_time_stamps, RInt(time_sec))
                           ELSE UNCHANGED rawVars
                        /\ UNCHANGED last_detect_time
                /\ vt' = SetPc(th, "agg")
       ELSE /\ UNCHANGED <<bufVars, last_detect_time, rawVars>>
            /\ vt' = SetPc(th, "sleep")

\* lines 36-93: the timestamp, current_frame and the frame taken in
VProc(th) ==
    /\ vt[th].pc = "proc"
    /\ IF is_inference /\ inference_start_time = None
       \* line 44 subtracts None from a float: TypeError, and the except
       \* clause (lines 183-186) leaves the loop
       THEN /\ vt' = SetPc(th, "exit")
            /\ UNCHANGED <<current_frame, bufVars, last_detect_time, rawVars>>
       ELSE /\ current_frame' = vt[th].frame
            /\ VTakeIn(th)
    /\ UNCHANGED <<flagVars, srcVars, now, inference_start_time, seriesVars,
                   smaVars, ngVars, start_monitor_image, cfgVars, btnVars,
                   after_queue, outVars, video_thread, rt, wt, run, fnVars,
                   main_loop>>

\* an exception inside the try block (lines 36-181), such as a failing
\* model.predict: the except clause (lines 183-186) leaves the loop
VProcRaises(th) ==
    /\ vt[th].pc = "proc"
    /\ vt' = SetPc(th, "exit")
    /\ UNCHANGED <<flagVars, srcVars, now, timeVars, seriesVars, smaVars,
                   bufVars, ngVars, imgVars, cfgVars, btnVars, after_queue,
                   outVars, video_thread, rt, wt, run, fnVars, rawVars,
                   main_loop>>

\* all qualifying box areas of the buffered frames
RECURSIVE GroupAreas(_, _)
GroupAreas(group, conf_thres) ==
    IF group = <<>> THEN <<>>
    ELSE QualifyingAreas(Head(group), conf_thres) \o
         GroupAreas(Tail(group), conf_thres)

\* list.append
InsertSample(series, x) == <<x>> \o series
AppendSample(series, x) == Append(series, x)

\* group_time - (last_detect_time - inference_start_time) > nan_gap
GapAlways(group_time, nan_gap) == TRUE
GapElapsed(group_time, nan_gap) ==
    /\ last_detect_time # None
    /\ RLt(RInt(nan_gap),
           RSub(group_time, RInt(last_detect_time - inference_start_time)))

\* lines 96-98 and calculate_average_area_with_sma up to the Series append
VAgg(th) ==
    /\ vt[th].pc = "agg"
    /\ IF Len(frame_group) = 2
       THEN LET group_time == mean(frame_times)
                areas == GroupAreas(frame_group, vt[th].conf_thres)
            IN  IF Len(areas) > 0
                THEN /\ avg_areas' = AppendSample(avg_areas, mean(areas))
                     /\ avg_time_stamps' =
                           AppendSample(avg_time_stamps, group_time)
                     /\ last_detect_time' = now
                     /\ UNCHANGED bufVars
                     /\ vt' = SetPc(th, "sma_areas")
                ELSE /\ IF GapElapsed(group_time, vt[th].nan_gap)
                        THEN /\ avg_areas' = AppendSample(avg_areas, NaN)
                             /\ avg_time_stamps' =
                                   AppendSample(avg_time_stamps, group_time)
                        ELSE UNCHANGED seriesVars
                     /\ frame_group' = <<>> /\ frame_times' = <<>>
                     /\ UNCHANGED last_detect_time
                     /\ vt' = SetPc(th, "sleep")
       ELSE /\ UNCHANGED <<seriesVars, bufVars, last_detect_time>>
            /\ vt' = SetPc(th, "sleep")
    /\ UNCHANGED <<flagVars, srcVars, now, inference_start_time, smaVars,
                   ngVars, imgVars, cfgVars, btnVars, after_queue, outVars,
                   video_thread, rt, wt, run, fnVars, rawVars, main_loop>>

\* self.app.sma_areas = smoothed.tolist()
VSmaAreas(th) ==
    /\ vt[th].pc = "sma_areas"
    /\ IF Len(avg_areas) >= 1
       THEN /\ sma_areas' = rolling_mean(avg_areas, sma_window_var)
            /\ vt' = SetPc(th, "sma_times")
       ELSE /\ UNCHANGED sma_areas
            /\ vt' = SetPc(th, "monitor")
    /\ UNCHANGED <<flagVars, srcVars, now, timeVars, seriesVars,
                   sma_time_stamps, bufVars, ngVars, imgVars, cfgVars, btnVars,
                   after_queue, outVars, video_thread, rt, wt, run, fnVars, rawVars, main_loop>>

\* self.app.sma_time_stamps = self.app.avg_time_stamps.copy()
VSmaTimes(th) ==
    /\ vt[th].pc = "sma_times"
    /\ sma_time_stamps' = avg_time_stamps
    /\ vt' = SetPc(th, "monitor")
    /\ UNCHANGED <<flagVars, srcVars, now, timeVars, seriesVars, sma_areas,
                   bufVars, ngVars, imgVars, cfgVars, btnVars, after_queue,
                   outVars, video_thread, rt, wt, run, fnVars, rawVars, main_loop>>

\* if self.app.is_monitoring: root.after(0, check_and_handle_ng); then the
\* buffer is emptied (lines 99-100)
VMonitor(th) ==
    /\ vt[th].pc = "monitor"
    /\ IF is_monitoring
       THEN /\ Len(after_queue) < MaxQueue
            /\ after_queue' = Append(after_queue, Entry("check"))
       ELSE UNCHANGED after_queue
    /\ frame_group' = <<>> /\ frame_times' = <<>>
    /\ vt' = SetPc(th, "sleep")
    /\ UNCHANGED <<flagVars, srcVars, now, timeVars, seriesVars, smaVars,
                   ngVars, imgVars, cfgVars, btnVars, outVars, video_thread,
                   rt, wt, run, fnVars, rawVars, main_loop>>

\* the rest of the iteration: display, frame_count, time.sleep
VSleep(th) ==
    /\ vt[th].pc = "sleep"
    /\ now' = now + video.period
    /\ vt' = SetPc(th, "loop")
    /\ UNCHANGED <<flagVars, srcVars, timeVars, seriesVars, smaVars, bufVars,
                   ngVars, imgVars, cfgVars, btnVars, after_queue, outVars,
                   video_thread, rt, wt, run, fnVars, rawVars, main_loop>>

\* after the loop: self.app.stop_processing()
VExit(th) ==
    /\ vt[th].pc = "exit"
    /\ StopProcessing
    /\ vt' = SetPc(th, "dead")
    /\ UNCHANGED <<model, stream_type, video, now, timeVars, seriesVars,
                   smaVars, bufVars, ngVars, imgVars, cfgVars, btnVars,
                   after_queue, outVars, video_thread, rt, wt, run, fnVars, rawVars, main_loop>>

\* the same call statement by statement, for the handlers of the main loop
\* that run while the frame thread is inside it: the three flags first
VStopFlags(th) ==
    /\ vt[th].pc = "exit"
    /\ is_inference' = stop_processing.is_inference
    /\ is_preview' = stop_processing.is_preview
    /\ is_monitoring' = stop_processing.is_monitoring
    /\ vt' = SetPc(th, "release")
    /\ UNCHANGED <<srcVars, now, timeVars, seriesVars, smaVars, bufVars,
                   ngVars, imgVars, cfgVars, btnVars, after_queue, outVars,
                   video_thread, rt, wt, run, fnVars, rawVars, main_loop>>

\* then self.cap.release() and self.cap = None, on whatever self.cap is now
VStopRelease(th) ==
    /\ vt[th].pc = "release"
    /\ cap' = stop_processing.cap
    /\ vt' = SetPc(th, "dead")
    /\ UNCHANGED <<flagVars, model, stream_type, video, now, timeVars,
                   seriesVars, smaVars, bufVars, ngVars, imgVars, cfgVars,
                   btnVars, after_queue, outVars, video_thread, rt, wt, run,
                   fnVars, rawVars, main_loop>>

(***************************************************************************)
(* plot_update_loop and monitor_inference (src/app.py): one thread of each *)
(* per start_inference, indexed by the run that started it.                *)
(***************************************************************************)
\* while self.is_inference:
RCheck(r) ==
    /\ rt[r].pc = "check"
    /\ rt' = [rt EXCEPT ![r] = IF is_inference
                               THEN [pc |-> "sleep", seen_run |-> run]
                               ELSE [pc |-> "dead", seen_run |-> rt[r].seen_run]]
    /\ UNCHANGED <<flagVars, srcVars, now, timeVars, seriesVars, smaVars,
                   bufVars, ngVars, imgVars, cfgVars, btnVars, after_queue,
                   outVars, vt, video_thread, wt, run, fnVars, rawVars, main_loop>>

\* time.sleep(1), then the plot update is scheduled when there is data
RWake(r) ==
    /\ rt[r].pc = "sleep"
    /\ IF Len(sma_areas) > 0
       THEN /\ Len(after_queue) < MaxQueue
            /\ after_queue' = Append(after_queue, Entry("plot"))
       ELSE UNCHANGED after_queue
    /\ rt' = [rt EXCEPT ![r].pc = "check"]
    /\ UNCHANGED <<flagVars, srcVars, now, timeVars, seriesVars, smaVars,
                   bufVars, ngVars, imgVars, cfgVars, btnVars, outVars, vt,
                   video_thread, wt, run, fnVars, rawVars, main_loop>>

\* while self.is_inference:
WCheck(r) ==
    /\ wt[r].pc = "check"
    /\ wt' = [wt EXCEPT ![r] = IF is_inference
                               THEN [pc |-> "sleep", seen_run |-> run]
                               ELSE [pc |-> "dead", seen_run |-> wt[r].seen_run]]
    /\ UNCHANGED <<flagVars, srcVars, now, timeVars, seriesVars, smaVars,
                   bufVars, ngVars, imgVars, cfgVars, btnVars, after_queue,
                   outVars, vt, video_thread, rt, run, fnVars, rawVars, main_loop>>

NeverTimedOut == FALSE
RunTimedOut ==
    inference_start_time # None /\ now - inference_start_time > max_inference_time
SilenceTimedOut ==
    last_detect_time # None /\ now - last_detect_time > max_no_detect_time

\* time.sleep(10), the second test of is_inference, then the two limits
WWake(r) ==
    /\ wt[r].pc = "sleep"
    /\ IF ~is_inference
       THEN wt' = [wt EXCEPT ![r].pc = "dead"] /\ UNCHANGED after_queue
       ELSE IF RunTimedOut \/ SilenceTimedOut
       THEN /\ after_queue' = Append(after_queue, Entry("auto_reset"))
            /\ wt' = [wt EXCEPT ![r].pc = "dead"]
       ELSE wt' = [wt EXCEPT ![r].pc = "check"] /\ UNCHANGED after_queue
    /\ UNCHANGED <<flagVars, srcVars, now, timeVars, seriesVars, smaVars,
                   bufVars, ngVars, imgVars, cfgVars, btnVars, outVars, vt,
                   video_thread, rt, run, fnVars, rawVars, main_loop>>

(***************************************************************************)
(* Specifications.                                                         *)
(***************************************************************************)
VideoStep ==
    \E th \in VThreads :
        \/ VLoop(th) \/ VProc(th) \/ VAgg(th) \/ VSmaAreas(th)
        \/ VSmaTimes(th) \/ VMonitor(th) \/ VSleep(th) \/ VExit(th)
RefreshStep == \E r \in Runs : RCheck(r) \/ RWake(r)
WatchStep == \E r \in Runs : WCheck(r) \/ WWake(r)

\* every interleaving of the GUI main loop with the three kinds of thread, on
\* sources too short for an alert time to be reached
Next ==
    \/ OpenSource \/ OpenSourceFails \/ ToggleMonitoring \/ StartInference
    \/ StopInference \/ ClearAllData
    \/ CheckAndHandleNg \/ UpdateSmaPlot
    \/ VideoStep \/ RefreshStep \/ WatchStep

Spec == Init /\ [][Next]_vars

\* the escalation pipeline on long sources: the GUI main loop runs between
\* the iterations of the frame-processing loop and empties the callback
\* queue before the next frame is read or the next user event is handled;
\* frames are read once inference has started, and the run lasts until the
\* source ends
EscIdle == Quiet /\ after_queue = <<>>
EscVideoStep ==
    /\ Quiet => after_queue = <<>> /\ (is_inference \/ ~is_preview)
    /\ VideoStep

NextEsc ==
    \/ EscIdle /\ OpenSource
    \/ EscIdle /\ ToggleMonitoring
    \/ EscIdle /\ StartInference
    \/ EscIdle /\ ChangeSmaWindow
    \/ Quiet /\ CheckAndHandleNg
    \/ Quiet /\ ShowNonModalWarning
    \/ EscVideoStep

SpecEsc == InitEsc /\ [][NextEsc]_vars

\* the sample pipeline on short sources with gaps: the GUI main loop runs
\* between the iterations of the frame-processing loop, in preview and in
\* inference, and the run can be stopped and started again
PipeVideoStep ==
    /\ Quiet => after_queue = <<>>
    /\ VideoStep

NextPipe ==
    \/ EscIdle /\ OpenSource
    \/ EscIdle /\ ToggleMonitoring
    \/ EscIdle /\ StartInference
    \/ EscIdle /\ StopInference
    \/ Quiet /\ CheckAndHandleNg
    \/ PipeVideoStep

SpecPipe == InitPipe /\ [][NextPipe]_vars

\* the watch thread against the frame thread and the GUI main loop, on slow
\* sources and runs that the user does not stop.  The watch thread leaves
\* its sleep, and the main loop runs a queued callback, after finitely many
\* steps of the others.
NextWatch ==
    \/ OpenSource \/ StartInference
    \/ AutoResetSystem
    \/ VideoStep \/ WatchStep

SpecWatch ==
    /\ InitWatch /\ [][NextWatch]_vars
    /\ WF_vars(WatchStep) /\ WF_vars(AutoResetSystem)

\* the start of a run against the frame thread: the main loop handles one
\* event at a time, and the frame thread runs at any time, also inside
\* start_inference
GuiIdle == main_loop = "idle"

NextStart ==
    \/ GuiIdle /\ OpenSource
    \/ GuiIdle /\ ToggleMonitoring
    \/ StartInferenceBegin
    \/ StartInferenceEnd
    \/ GuiIdle /\ StopInference
    \/ VideoStep

SpecStart == InitPipe /\ [][NextStart]_vars

\* the frame loop on sources that fail: a session previewed, started and
\* stopped by the user while each frame thread, once started, keeps running
FrameThread(th) ==
    \/ VLoop(th) \/ VProc(th) \/ VAgg(th) \/ VSmaAreas(th)
    \/ VSmaTimes(th) \/ VMonitor(th) \/ VSleep(th) \/ VExit(th)

NextSrc ==
    \/ OpenSource \/ StartInference \/ StopInference
    \/ \E th \in VThreads : FrameThread(th)

SpecSrc ==
    /\ InitSrc /\ [][NextSrc]_vars
    /\ \A th \in 1 .. MaxVideoThreads : WF_vars(FrameThread(th))

\* one session over a near-constant source: inference is started and
\* monitoring enabled before the first frame is read, the main loop runs its
\* callbacks between the frames, and the log file can be written
ScenarioVideoStep ==
    /\ Quiet => is_monitoring /\ after_queue = <<>>
    /\ VideoStep
LogWritten == ng_5_times' # ng_5_times => log_file' # log_file

NextScenario ==
    \/ EscIdle /\ OpenSource
    \/ EscIdle /\ StartInference
    \/ EscIdle /\ ~is_monitoring /\ ToggleMonitoring
    \/ Quiet /\ CheckAndHandleNg /\ LogWritten
    \/ Quiet /\ ShowNonModalWarning
    \/ ScenarioVideoStep

SpecScenario == InitScenario /\ [][NextScenario]_vars

\* the same sources with the monitor and stop buttons also pressed while a
\* scheduled callback is still queued: the button event is handled before
\* the callback
Pending == Quiet /\ after_queue # <<>>
NextLate ==
    \/ EscIdle /\ OpenSource
    \/ EscIdle /\ StartInference
    \/ EscIdle /\ ~is_monitoring /\ ToggleMonitoring
    \/ Pending /\ is_monitoring /\ ToggleMonitoring
    \/ Pending /\ StopInference
    \/ Quiet /\ CheckAndHandleNg
    \/ Quiet /\ ShowNonModalWarning
    \/ ScenarioVideoStep

SpecLate == InitScenario /\ [][NextLate]_vars

\* sources opened one after the other: open, start, stop and clear between
\* the iterations of the frame loops
NextTwo ==
    \/ Quiet /\ OpenSource
    \/ Quiet /\ StartInference
    \/ Quiet /\ StopInference
    \/ Quiet /\ ClearAllData
    \/ VideoStep

SpecTwo == InitTwo /\ [][NextTwo]_vars

\* the sample pipeline with the two settings of the frame loop changed
\* between its iterations
NextCfg ==
    \/ NextPipe
    \/ EscIdle /\ ChangeConfidence
    \/ EscIdle /\ ChangeNanGap

SpecCfg == InitPipe /\ [][NextCfg]_vars

\* the user's handlers between the iterations of the frame loop, on short
\* files, with sources that cannot be opened and a model that cannot be
\* loaded again
NextUser ==
    \/ Quiet /\ OpenSource
    \/ Quiet /\ OpenSourceFails
    \/ Quiet /\ StartInference
    \/ Quiet /\ StartInferenceFails
    \/ Quiet /\ StopInference
    \/ Quiet /\ \E loaded \in BOOLEAN : ClearAllDataTo(loaded)
    \/ VideoStep

SpecUser == Init /\ [][NextUser]_vars

\* the ways to a full stop: clear, closing the window, the end of the source
\* and an error in the frame loop, from preview and from inference, with
\* the frame thread running at any time; nothing runs once the window is
\* closed
Running == main_loop # "closed"

FrameStep ==
    \E th \in VThreads :
        \/ VLoop(th) \/ VProc(th) \/ VAgg(th) \/ VSmaAreas(th)
        \/ VSmaTimes(th) \/ VMonitor(th) \/ VSleep(th)

NextStop ==
    \/ GuiIdle /\ OpenSource
    \/ GuiIdle /\ ToggleMonitoring
    \/ GuiIdle /\ StartInference
    \/ GuiIdle /\ StopInference
    \/ GuiIdle /\ ClearAllData
    \/ ToggleMonitoringBegin \/ ToggleMonitoringEnd
    \/ OnClosing
    \/ Running /\ FrameStep
    \/ Running /\ \E th \in VThreads : VProcRaises(th)
    \/ Running /\ \E th \in VThreads : VStopFlags(th) \/ VStopRelease(th)

SpecStop == Init /\ [][NextStop]_vars

(***************************************************************************)
(* The trend detector called on its own, on bounded series.                *)
(***************************************************************************)
MaxSeriesLen == 5
DetAreaVals == {NaN, RInt(0), RInt(20), RInt(22)}
DetGaps == {120, 150}
DetStarts == {RInt(0), Rat(61, 2)}

InitDet ==
    /\ AppInit
    /\ video = [kind |-> "video", frames |-> <<>>, period |-> 60]
    /\ \E n \in 1 .. MaxSeriesLen :
          /\ in_areas \in [1 .. n -> DetAreaVals]
          /\ \E t0 \in DetStarts : \E g \in DetGaps :
                in_times = [i \in 1 .. n |-> RAdd(t0, RInt((i - 1) * g))]
    /\ in_det \in {Detector3, Detector5}
    /\ in_window = default_sma_window
    /\ out_results = <<>> /\ out_again = <<>>
    /\ fn_pc = "call"

RunDetector ==
    /\ fn_pc = "call"
    /\ out_results' = check_area_trend_timebased(in_areas, in_times, in_det)
    /\ fn_pc' = "done"
    /\ UNCHANGED <<flagVars, srcVars, now, timeVars, seriesVars, smaVars,
                   bufVars, ngVars, imgVars, cfgVars, btnVars, after_queue,
                   outVars, thrVars, run, in_areas, in_times, in_det,
                   out_again, in_window, rawVars, main_loop>>

SpecDet == InitDet /\ [][RunDetector]_vars

(***************************************************************************)
(* The gap cleaner and the smoother called on their own, on bounded        *)
(* series.                                                                 *)
(***************************************************************************)
FnAreaVals == {NaN, RInt(10), RInt(20)}
\* the spacing of the timestamps: even, and alternately short and long
FnSteps == { <<2, 2>>, <<1, 3>> }
FnWindows == {1, 3, 7}

FnTime(steps, i) ==
    RInt(((i - 1) \div 2) * (steps[1] + steps[2]) + ((i - 1) % 2) * steps[1])

InitFn ==
    /\ AppInit
    /\ video = [kind |-> "video", frames |-> <<>>, period |-> 60]
    /\ \E n \in 1 .. MaxSeriesLen :
          /\ in_areas \in [1 .. n -> FnAreaVals]
          \* one timestamp per area, or a timestamp list one entry short
          /\ \E steps \in FnSteps : \E m \in {n - 1, n} :
                in_times = [i \in 1 .. m |-> FnTime(steps, i)]
    /\ in_det = Detector3
    /\ in_window \in FnWindows
    /\ out_results = <<>> /\ out_again = <<>>
    /\ fn_pc = "call"

FnFrame == <<flagVars, srcVars, now, timeVars, seriesVars, smaVars, bufVars,
             ngVars, imgVars, cfgVars, btnVars, after_queue, outVars, thrVars,
             run, in_areas, in_times, in_det, in_window, rawVars, main_loop>>

\* cleaned = DataProcessor.clean_data(areas, timestamps, gap_limit)
RunClean ==
    /\ fn_pc = "call"
    /\ out_results' = clean_data(in_areas, in_times, gap_limit_default)
    /\ fn_pc' = "cleaned"
    /\ UNCHANGED <<FnFrame, out_again>>

\* DataProcessor.clean_data(cleaned, timestamps, gap_limit)
RunCleanAgain ==
    /\ fn_pc = "cleaned"
    /\ out_again' = clean_data(out_results, in_times, gap_limit_default)
    /\ fn_pc' = "done"
    /\ UNCHANGED <<FnFrame, out_results>>

\* pd.Series(areas).rolling(window=window_size, min_periods=1).mean()
RunSmooth ==
    /\ fn_pc = "call"
    /\ out_results' = rolling_mean(in_areas, in_window)
    /\ fn_pc' = "smoothed"
    /\ UNCHANGED <<FnFrame, out_again>>

NextFn == RunClean \/ RunCleanAgain \/ RunSmooth
SpecFn == InitFn /\ [][NextFn]_vars

(***************************************************************************)
(* Properties of the trend detector, checked under SpecDet.                *)
(***************************************************************************)
\* |ratio - 1| < epsilon for a recorded evaluation
IsFlat(e) ==
    LET r == RDiv(e.curr_avg_area, e.prev_avg_area)
    IN  ~IsNaN(r) /\ Abs(r[1] - r[2]) * in_det.epsilon[2] < in_det.epsilon[1] * r[2]

\* an NG entry before position i lies within the cooldown of entry i
NearEarlierNg(i) ==
    \E j \in 1 .. i - 1 :
        /\ out_results[j].status = "NG"
        /\ out_results[i].time_sec - out_results[j].time_sec <= in_det.cooldown

\* the evaluation times of one detector run
GridTimes ==
    IF in_times = <<>> THEN {}
    ELSE LET start == RangeStart(in_times, in_det)
             stop == RangeStop(in_times)
             step == step_size(in_det.minutes, in_det.overlap_ratio)
         IN  {t \in start .. stop - 1 : (t - start) % step = 0}

PrevWindowAt(t) ==
    Window(in_areas, in_times, t - 2 * L_sec(in_det.minutes), t - L_sec(in_det.minutes))
CurrWindowAt(t) ==
    Window(in_areas, in_times, t - L_sec(in_det.minutes), t)
EntriesAt(t) == {i \in DOMAIN out_results : out_results[i].time_sec = t}

\* C2: within one run of the trend detector, a flat evaluation that lies
\* within the cooldown of the last reported NG is recorded as SKIP and every
\* other flat evaluation as NG, so that any two NG entries of the result list
\* are more than the cooldown apart.
C2_CooldownWithinRun ==
    fn_pc = "done" =>
        /\ \A i \in DOMAIN out_results :
              LET e == out_results[i]
              IN  /\ e.status = "SKIP" <=> (IsFlat(e) /\ NearEarlierNg(i))
                  /\ e.status = "NG" <=> (IsFlat(e) /\ ~NearEarlierNg(i))
        /\ \A i, j \in DOMAIN out_results :
              (i < j /\ out_results[i].status = "NG" /\ out_results[j].status = "NG")
                  => out_results[j].time_sec - out_results[i].time_sec > in_det.cooldown

\* a result list with an NG, a later SKIP and a still later NG
C2_NgSkipNg ==
    /\ fn_pc = "done"
    /\ \E i, j, k \in DOMAIN out_results :
          /\ i < j /\ j < k
          /\ out_results[i].status = "NG"
          /\ out_results[j].status = "SKIP"
          /\ out_results[k].status = "NG"

\* C4: every evaluation time with both windows non-empty and a positive
\* previous average yields one entry, whose status before the cooldown is NG
\* (recorded as NG or SKIP) exactly when |curr_avg / prev_avg - 1| < epsilon,
\* and NORMAL otherwise; a changing average is never recorded as NG.
C4_FlatIsNg ==
    fn_pc = "done" =>
        /\ \A t \in GridTimes :
              (/\ PrevWindowAt(t) # <<>> /\ CurrWindowAt(t) # <<>>
               /\ RLt(RInt(0), nanmean(PrevWindowAt(t))))
                  => Cardinality(EntriesAt(t)) = 1
        /\ \A i \in DOMAIN out_results :
              LET e == out_results[i]
              IN  /\ e.prev_avg_area = nanmean(PrevWindowAt(e.time_sec))
                  /\ e.curr_avg_area = nanmean(CurrWindowAt(e.time_sec))
                  /\ IsFlat(e) => e.status \in {"NG", "SKIP"}
                  /\ ~IsFlat(e) => e.status = "NORMAL"

\* a result list with an NG and with a NORMAL whose averages differ
C4_NgAndNormal ==
    /\ fn_pc = "done"
    /\ \E i, j \in DOMAIN out_results :
          /\ out_results[i].status = "NG"
          /\ out_results[j].status = "NORMAL"
          /\ ~IsNaN(out_results[j].ratio)
          /\ out_results[j].ratio # RInt(1)

\* C5: an evaluation time at which a window is empty, the previous average
\* is zero or negative, or a window holds only missing values yields no
\* entry in the result list.
C5_UndefinedSkipped ==
    fn_pc = "done" =>
        \A t \in GridTimes :
            (\/ PrevWindowAt(t) = <<>> \/ CurrWindowAt(t) = <<>>
             \/ NotNaNs(PrevWindowAt(t)) = <<>>
             \/ NotNaNs(CurrWindowAt(t)) = <<>>
             \/ ~RLt(RInt(0), nanmean(PrevWindowAt(t))))
                => EntriesAt(t) = {}

(***************************************************************************)
(* Properties of the escalation pipeline, checked under SpecEsc.           *)
(***************************************************************************)
Key(x) == <<x.run, x.t>>
Rows == {i \in DOMAIN log_file : log_file[i].kind = "row"}
PendingWarns == {i \in DOMAIN after_queue : after_queue[i].fn = "warn"}
NoRepeat(s, I) == \A i, j \in I : i # j => Key(s[i]) # Key(s[j])

\* C1: within one session an alert time is escalated at most once: no two
\* log rows, no two notifications (raised or still queued) and no two
\* reports carry the same alert time of the same run.
C1_EscalatedAtMostOnce ==
    /\ NoRepeat(log_file, Rows)
    /\ NoRepeat(beeps, DOMAIN beeps)
    /\ NoRepeat(warning_wins, DOMAIN warning_wins)
    /\ NoRepeat(reports, DOMAIN reports)
    /\ NoRepeat(after_queue, PendingWarns)
    /\ \A i \in PendingWarns : \A j \in DOMAIN beeps :
          Key(after_queue[i]) # Key(beeps[j])

\* a detection cycle found again an alert time that is already logged
C1_AlertSeenAgain ==
    \E k \in dup_hits : \E i \in Rows : \E j \in DOMAIN beeps :
        Key(log_file[i]) = k /\ Key(beeps[j]) = k

Dist(a, b) == Abs(a - b)

\* C3: over all detection cycles of a session, any two distinct warning
\* times differ by more than 180 s and any two distinct alert times by more
\* than 210 s.
C3_CooldownAcrossCycles ==
    /\ \A a, b \in ng_3_times : a # b => Dist(a, b) > cooldown_3
    /\ \A a, b \in ng_5_times : a # b => Dist(a, b) > cooldown_5

\* C6: a failing side effect does not keep any alert time from being
\* notified: every alert time of the session has its notification queued,
\* or its beep and its warning window raised.
C6_EveryAlertNotified ==
    \A t \in ng_5_times :
        \/ \E i \in PendingWarns : Key(after_queue[i]) = <<run, t>>
        \/ /\ \E i \in DOMAIN beeps : Key(beeps[i]) = <<run, t>>
           /\ \E i \in DOMAIN warning_wins : Key(warning_wins[i]) = <<run, t>>

\* C7: an alert that fires while the start snapshot is missing is added to
\* the seen alert times and gets its log row and its notification, and the
\* warning raised while an image is missing produces no report and still
\* shows its window.
C7_MissingSnapshot ==
    [][ /\ (start_monitor_image = None /\ ~(ng_5_times' \subseteq ng_5_times))
            => \A t \in ng_5_times' \ ng_5_times :
                  /\ \E i \in DOMAIN log_file' :
                        log_file'[i].kind = "row" /\ Key(log_file'[i]) = <<run, t>>
                  /\ \E i \in DOMAIN after_queue' :
                        after_queue'[i].fn = "warn" /\ Key(after_queue'[i]) = <<run, t>>
        /\ ((start_monitor_image = None \/ current_frame = None) /\ beeps' # beeps)
            => /\ reports' = reports
               /\ Len(warning_wins') = Len(warning_wins) + 1
      ]_vars

\* C8: the Series grows, and the seen warning and alert times grow, only in
\* steps of the frame-processing thread.
C8_SingleWriter ==
    [][ (\/ Len(avg_areas') > Len(avg_areas)
         \/ ~(ng_3_times' \subseteq ng_3_times)
         \/ ~(ng_5_times' \subseteq ng_5_times))
            => vt' # vt
      ]_vars

(***************************************************************************)
(* Properties of the threads, checked under Spec.                          *)
(***************************************************************************)
\* C9: whenever a detection cycle or a plot update is about to read the
\* smoothed series, its area list and its timestamp list have equal length.
C9_NoTornRead ==
    (HeadIs("check") \/ HeadIs("plot"))
        => Len(sma_areas) = Len(sma_time_stamps)

\* C10: a refresh or watch thread goes on after its loop test only in the
\* run that started it.
C10_StoppedRunCeases ==
    \A r \in Runs :
        /\ rt[r].pc = "sleep" => rt[r].seen_run = r
        /\ wt[r].pc = "sleep" => wt[r].seen_run = r

(***************************************************************************)
(* Properties of the gap cleaner and the smoother, checked under SpecFn.   *)
(***************************************************************************)
SameLengths == Len(in_areas) = Len(in_times)
HasGap(s) == \E i \in DOMAIN s : IsNaN(s[i])

\* the maximal runs of missing entries of s, as <<first, last>> positions
GapRuns(s) ==
    {r \in (DOMAIN s) \X (DOMAIN s) :
        /\ r[1] <= r[2]
        /\ \A i \in r[1] .. r[2] : IsNaN(s[i])
        /\ r[1] = 1 \/ ~IsNaN(s[r[1] - 1])
        /\ r[2] = Len(s) \/ ~IsNaN(s[r[2] + 1])}
RunLen(r) == r[2] - r[1] + 1
BetweenValid(s, r) == r[1] > 1 /\ r[2] < Len(s)

\* the value at time ts[i] on the line through (ts[a], s[a]) and (ts[b], s[b])
OnLine(s, ts, a, b, i) ==
    RAdd(s[a], RDiv(RMul(RSub(s[b], s[a]), RSub(ts[i], ts[a])),
                    RSub(ts[b], ts[a])))

\* C16: the cleaner fills a run of at most gap_limit missing entries between
\* two valid entries by linear interpolation over time between them, and
\* turns every entry of a run of more than gap_limit missing entries into 0.
C16_ShortFilledLongZero ==
    (fn_pc = "cleaned" /\ SameLengths) =>
        \A r \in GapRuns(in_areas) :
            /\ (RunLen(r) <= gap_limit_default /\ BetweenValid(in_areas, r))
                  => \A i \in r[1] .. r[2] :
                        out_results[i] =
                            OnLine(in_areas, in_times, r[1] - 1, r[2] + 1, i)
            /\ RunLen(r) > gap_limit_default
                  => \A i \in r[1] .. r[2] : out_results[i] = RInt(0)

\* C17: the cleaner returns as many entries as it was given areas, none of
\* them missing, whatever the lengths of the two lists.
C17_NoGapRemains ==
    fn_pc = "cleaned" =>
        /\ Len(out_results) = Len(in_areas)
        /\ ~HasGap(out_results)

\* C18: cleaning a cleaned series returns it unchanged, and cleaning a
\* series without missing entries returns that series.
C18_Idempotent ==
    fn_pc = "done" =>
        /\ out_again = out_results
        /\ ~HasGap(in_areas) => out_results = in_areas

\* a series with missing entries was cleaned twice, and the first pass both
\* interpolated an entry and set one to 0
C18_CleanedTwice ==
    /\ fn_pc = "done" /\ SameLengths
    /\ \E i, j \in DOMAIN in_areas :
          /\ IsNaN(in_areas[i]) /\ out_results[i] = RInt(0)
          /\ IsNaN(in_areas[j]) /\ out_results[j] # RInt(0)

\* the last min(window, i) entries of s ending at position i
Trailing(s, window, i) == SubSeq(s, Max2(1, i - window + 1), i)

\* C19: for a series that starts with a valid entry the smoother returns one
\* value per position, never a missing one, equal to the mean of the
\* trailing window wherever that window has no missing entry.
C19_TrailingMean ==
    (fn_pc = "smoothed" /\ ~IsNaN(in_areas[1])) =>
        /\ Len(out_results) = Len(in_areas)
        /\ \A i \in DOMAIN in_areas :
              /\ ~IsNaN(out_results[i])
              /\ ~HasGap(Trailing(in_areas, in_window, i))
                    => out_results[i] = mean(Trailing(in_areas, in_window, i))

(***************************************************************************)
(* Properties of the sample pipeline, checked under SpecPipe.              *)
(***************************************************************************)
\* a step in which thread th takes in a frame in inference mode
Ingests(th) == vt[th].pc = "proc" /\ vt'[th].pc = "agg"
\* a step in which thread th aggregates a full buffer
Aggregates(th) ==
    vt[th].pc = "agg" /\ vt'[th].pc # "agg" /\ Len(frame_group) = 2

\* every GAP sample has a detection before it, and lies more than nan_gap
\* after each of them
NoEarlyGap ==
    \A i \in DOMAIN raw_areas :
        IsNaN(raw_areas[i]) =>
            /\ \E j \in 1 .. i - 1 : ~IsNaN(raw_areas[j])
            /\ \A j \in 1 .. i - 1 :
                  ~IsNaN(raw_areas[j]) =>
                      RLt(RInt(nan_gap_var),
                          RSub(raw_time_stamps[i], raw_time_stamps[j]))

\* C12: for every frame taken in during inference: with a qualifying box
\* the sample appended is the sum of the qualifying areas, and
\* last_detect_time becomes now; without one, a GAP sample is appended when
\* last_detect_time is set and more than nan_gap old, and nothing otherwise.
\* So no GAP sample precedes the first detection or lies within nan_gap of
\* an earlier detection.
C12_IngestorRule ==
    [][ /\ \A th \in VThreads :
              Ingests(th) =>
                  LET time_sec == now - inference_start_time
                      q == QualifyingAreas(video.frames[vt[th].frame],
                                           vt[th].conf_thres)
                  IN  IF q # <<>>
                      THEN /\ raw_areas' = Append(raw_areas, SumSeq(q))
                           /\ raw_time_stamps' =
                                 Append(raw_time_stamps, RInt(time_sec))
                           /\ last_detect_time' = now
                      ELSE IF /\ last_detect_time # None
                              /\ now - last_detect_time > vt[th].nan_gap
                      THEN /\ raw_areas' = Append(raw_areas, NaN)
                           /\ raw_time_stamps' =
                                 Append(raw_time_stamps, RInt(time_sec))
                      ELSE UNCHANGED rawVars
        /\ NoEarlyGap'
      ]_vars

\* on the quick source a GAP sample was appended, after frames that got no
\* sample
C12_GapAfterBriefMiss ==
    /\ video.frames = BriefMissVideo
    /\ Len(raw_areas) >= 2
    /\ HasGap(raw_areas)

\* the per-frame areas of the buffered frames that have a detection
RECURSIVE FrameSums(_, _)
FrameSums(group, conf_thres) ==
    IF group = <<>> THEN <<>>
    ELSE LET q == QualifyingAreas(Head(group), conf_thres)
         IN  (IF q = <<>> THEN <<>> ELSE << SumSeq(q) >>) \o
             FrameSums(Tail(group), conf_thres)

\* C13: when a buffered frame has a detection, the aggregator appends the
\* mean of the per-frame areas of the detecting frames, at the mean of the
\* two frame timestamps.
C13_MeanOfFrameSums ==
    [][ \A th \in VThreads :
            (Aggregates(th) /\ FrameSums(frame_group, vt[th].conf_thres) # <<>>)
                => /\ avg_areas' =
                         Append(avg_areas,
                                mean(FrameSums(frame_group, vt[th].conf_thres)))
                   /\ avg_time_stamps' =
                         Append(avg_time_stamps, mean(frame_times))
      ]_vars

\* between two iterations of the frame loop
BetweenFrames == \A th \in VThreads : vt[th].pc \in {"none", "loop", "sleep", "dead"}

\* consecutive Series entries are at least two frame periods apart
OncePerTwoFrames ==
    \A i \in 1 .. Len(avg_time_stamps) - 1 :
        RLe(RInt(2 * video.period),
            RSub(avg_time_stamps[i + 1], avg_time_stamps[i]))

\* C14: when neither buffered frame has a detection, the aggregator appends
\* a GAP at the mean timestamp if last_detect_time is set and the group lies
\* more than nan_gap after it, and nothing otherwise, and empties the
\* buffer; the buffer never holds more than two frames, holds at most one
\* between two iterations, and the Series grows by one entry per full buffer.
C14_GapGroupRule ==
    [][ /\ \A th \in VThreads :
              (Aggregates(th) /\ FrameSums(frame_group, vt[th].conf_thres) = <<>>)
                  => /\ IF /\ last_detect_time # None
                           /\ RLt(RInt(vt[th].nan_gap),
                                  RSub(mean(frame_times),
                                       RInt(last_detect_time - inference_start_time)))
                        THEN /\ avg_areas' = Append(avg_areas, NaN)
                             /\ avg_time_stamps' =
                                   Append(avg_time_stamps, mean(frame_times))
                        ELSE UNCHANGED seriesVars
                     /\ frame_group' = <<>> /\ frame_times' = <<>>
        /\ Len(frame_group') <= 2 /\ Len(frame_times') = Len(frame_group')
        /\ BetweenFrames' => Len(frame_group') <= 1
        /\ Len(avg_areas') > Len(avg_areas)
              => Len(frame_group) = 2 /\ Len(avg_areas') = Len(avg_areas) + 1
        /\ OncePerTwoFrames'
      ]_vars

\* on the quick source a GAP entry was appended to the Series, after a group
\* without detection that got no entry
C14_GapAfterSkippedGroup ==
    /\ video.frames = BriefMissVideo
    /\ HasGap(avg_areas)

Extends(s, t) == Len(s) <= Len(t) /\ SubSeq(t, 1, Len(s)) = s
Ordered(ts) == \A i \in 1 .. Len(ts) - 1 : RLe(ts[i], ts[i + 1])
SeriesKept ==
    Extends(avg_areas, avg_areas') /\ Extends(avg_time_stamps, avg_time_stamps')
SeriesCleared == avg_areas' = <<>> /\ avg_time_stamps' = <<>>
SeriesAligned ==
    Len(avg_areas) = Len(avg_time_stamps) /\ Ordered(avg_time_stamps)

C20_SmoothOfClean ==
    HeadIs("check") =>
        clean_data(sma_areas, sma_time_stamps, gap_limit_default) =
            rolling_mean(clean_data(avg_areas, avg_time_stamps, gap_limit_default),
                         sma_window_var)

(***************************************************************************)
(* Properties of the watch thread, checked under SpecWatch.                *)
(***************************************************************************)
\* the two limits, by elapsed time
RunLimitPassed ==
    inference_start_time # None /\ now - inference_start_time > max_inference_time
SilenceLimitPassed ==
    last_detect_time # None /\ now - last_detect_time > max_no_detect_time

ResetsQueued ==
    Cardinality({i \in DOMAIN after_queue : after_queue[i].fn = "auto_reset"})

C21_SmoothedInStep ==
    BetweenFrames =>
        /\ Len(sma_areas) = Len(avg_areas)
        /\ sma_time_stamps = avg_time_stamps

TurnedOn == ~is_monitoring /\ is_monitoring'
TurnedOff == is_monitoring /\ ~is_monitoring'

\* C22: monitoring is turned on only during inference, and turning it on
\* sets start_monitor_image to the current frame, or leaves it None when
\* there is no frame yet; whenever monitoring is turned off, by the toggle or
\* by a stop, start_monitor_image is None afterwards.
C22_SnapshotFollowsFlag ==
    [][ /\ TurnedOn => /\ is_inference /\ is_inference'
                       /\ start_monitor_image' = current_frame
        /\ TurnedOff => start_monitor_image' = None
      ]_vars

ChecksQueued ==
    Cardinality({i \in DOMAIN after_queue : after_queue[i].fn = "check"})
\* a step in which thread th ends an aggregation that appended to the Series
Emitted(th) ==
    /\ vt'[th].pc = "sleep"
    /\ \/ vt[th].pc = "monitor"
       \/ vt[th].pc = "agg" /\ Len(avg_areas') > Len(avg_areas)
MarkersOf(p) ==
    ToSet(extract_ng_markers(check_area_trend_timebased(
        clean_data(sma_areas, sma_time_stamps, gap_limit_default),
        sma_time_stamps, p)))

\* C23: with monitoring enabled, every aggregation that appended to the
\* Series, a value or a GAP, has queued one detection cycle when it ends; a
\* detection cycle adds the NG markers of both detectors to the seen warning
\* and alert times; within a run the seen sets only grow.
C23_CycleAfterEmission ==
    [][ /\ \A th \in VThreads :
              (is_monitoring /\ Emitted(th)) => ChecksQueued' = ChecksQueued + 1
        /\ ChecksQueued' < ChecksQueued
              => /\ ng_3_times' = ng_3_times \cup MarkersOf(Detector3)
                 /\ ng_5_times' = ng_5_times \cup MarkersOf(Detector5)
        /\ run' = run
              => ng_3_times \subseteq ng_3_times' /\ ng_5_times \subseteq ng_5_times'
      ]_vars

(***************************************************************************)
(* Properties of the escalation steps and of the alert log, checked under  *)
(* SpecEsc.                                                                *)
(***************************************************************************)
CountKey(s, I, k) == Cardinality({i \in I : Key(s[i]) = k})
\* the keys of everything an escalation of the current run has produced
EscalatedKeys ==
    {Key(log_file[i]) : i \in Rows} \cup {Key(beeps[i]) : i \in DOMAIN beeps}
    \cup {Key(reports[i]) : i \in DOMAIN reports}
    \cup {Key(after_queue[i]) : i \in PendingWarns}

\* C24: every alert time of the run has its log row, and its notification
\* queued or else raised once, as beep and as window; a notification is
\* raised only after the row is written; raising it requests the report
\* under the time-range string, with the start snapshot and the current
\* frame, exactly when both exist; nothing is logged, reported or notified
\* for a time that is not an alert time.
C24_EscalationSequence ==
    /\ \A t \in ng_5_times :
          /\ CountKey(log_file, Rows, <<run, t>>) = 1
          /\ \/ CountKey(after_queue, PendingWarns, <<run, t>>) = 1
             \/ /\ CountKey(beeps, DOMAIN beeps, <<run, t>>) = 1
                /\ CountKey(warning_wins, DOMAIN warning_wins, <<run, t>>) = 1
    /\ \A i \in DOMAIN beeps : CountKey(log_file, Rows, Key(beeps[i])) = 1
    /\ \A i \in DOMAIN reports :
          /\ reports[i].img1 # None /\ reports[i].img2 # None
          /\ \E j \in Rows : /\ Key(log_file[j]) = Key(reports[i])
                             /\ log_file[j].range = reports[i].rs
    /\ \A k \in EscalatedKeys : k[1] = run => k[2] \in ng_5_times
    /\ [][ beeps' # beeps =>
              IF start_monitor_image # None /\ current_frame # None
              THEN /\ Len(reports') = Len(reports) + 1
                   /\ reports'[Len(reports')].img1 = start_monitor_image
                   /\ reports'[Len(reports')].img2 = current_frame
              ELSE reports' = reports ]_vars

NewAlerts == IF run' = run THEN ng_5_times' \ ng_5_times ELSE {}
RowCount(f) == Cardinality({i \in DOMAIN f : f[i].kind = "row"})

\* C25: the alert log only grows, by one row of duration 300 for each alert
\* time newly seen; no step removes or rewrites a row; the header is the
\* first line of a log that has lines and occurs nowhere else.
C25_LogAppendOnly ==
    /\ \A i \in DOMAIN log_file :
          /\ log_file[i].kind = "header" <=> i = 1
          /\ log_file[i].kind = "row" => log_file[i].duration = log_duration
    /\ [][ /\ Extends(log_file, log_file')
           /\ RowCount(log_file') = RowCount(log_file) + Cardinality(NewAlerts)
           /\ \A t \in NewAlerts :
                 \E i \in DOMAIN log_file' : /\ i > Len(log_file)
                                            /\ log_file'[i].kind = "row"
                                            /\ Key(log_file'[i]) = <<run, t>>
         ]_vars

(***************************************************************************)
(* Properties of the session state machine.                                *)
(***************************************************************************)
SessionEmpty ==
    /\ raw_areas = <<>> /\ raw_time_stamps = <<>>
    /\ avg_areas = <<>> /\ avg_time_stamps = <<>>
    /\ sma_areas = <<>> /\ sma_time_stamps = <<>>
    /\ frame_group = <<>> /\ frame_times = <<>>
    /\ last_detect_time = None
    /\ ng_3_times = {} /\ ng_5_times = {}
    /\ start_monitor_image = None

\* every sample and every buffered frame was taken in the current run
TakenInRun ==
    LET elapsed == RInt(now - inference_start_time)
        Within(ts) == \A i \in DOMAIN ts : RLe(RInt(0), ts[i]) /\ RLe(ts[i], elapsed)
    IN  /\ Within(raw_time_stamps) /\ Within(avg_time_stamps)
        /\ Within(sma_time_stamps) /\ Within(frame_times)
        /\ last_detect_time # None => last_detect_time >= inference_start_time

\* C26: inference starts from preview, with the raw, aggregated and smoothed
\* series, the frame buffer, last_detect_time, both seen sets and
\* start_monitor_image empty and monitoring disabled; when
\* inference_start_time is then set, to the current time, the run is on and
\* nothing has been taken in yet; whatever the run holds later was taken in
\* after its start.
C26_StartResets ==
    /\ [][ /\ (~is_inference /\ is_inference')
                  => is_preview /\ SessionEmpty' /\ ~is_monitoring'
           /\ run' # run
                  => /\ inference_start_time' = now'
                     /\ is_inference' /\ SessionEmpty' /\ ~is_monitoring'
         ]_vars
    /\ (is_inference /\ main_loop = "idle") => TakenInRun

\* a step of stop_inference, pressed or called by auto_reset_system
StopsInference == stop_button /\ ~stop_button'

\* C27: after inference is stopped, by the user or by the watch, the session
\* previews with the source still open; and whenever the preview flag is
\* set, a source is open.
C27_PreviewHasSource ==
    /\ is_preview => CapOpen
    /\ [][ StopsInference => (~is_inference' /\ is_preview' /\ CapOpen') ]_vars

\* the Series and both seen sets are as they were
SessionDataKept ==
    /\ seriesVars' = seriesVars
    /\ ng_3_times' = ng_3_times /\ ng_5_times' = ng_5_times

\* C28: the step that stops inference, and every step while inference is
\* off, leaves the Series and both seen sets as they were, unless it is a
\* reset of the session (clear, auto-reset, the next start), which empties
\* the Series.
C28_StopKeepsSeries ==
    [][ (~is_inference \/ ~is_inference') => (SessionDataKept \/ SeriesCleared)
      ]_vars

AllOff == ~is_inference /\ ~is_preview /\ ~is_monitoring /\ ~CapOpen

\* a step that runs stop_processing: the frame thread after its loop, the
\* closing of the window, or a clear while the session is on
FullStop ==
    \/ \E th \in VThreads : vt[th].pc # "dead" /\ vt'[th].pc = "dead"
    \/ main_loop # "closed" /\ main_loop' = "closed"
    \/ (is_inference \/ is_preview) /\ clear_button /\ ~is_preview'
          /\ vt' = vt /\ main_loop' = main_loop

\* C29: a full stop, from whatever state, leaves the inference, preview and
\* monitoring flags false and the source released; and the source is
\* released by nothing else.
C29_FullStopIdle ==
    [][ /\ FullStop => AllOff'
        /\ (CapOpen /\ ~CapOpen') => FullStop
      ]_vars

\* a network stream, and a file, which has an end; a local camera is read
\* under the rule of the file
Streaming == stream_type = "rtsp"
FiniteSource == stream_type = "video"
ReadFailed(th) ==
    vt[th].pc = "loop" /\ vt'[th].failures = vt[th].failures + 1

StartFailed == error_boxes' # error_boxes

\* C31: a start requested without a model or without an open source leaves
\* the session unstarted: the inference flag is and stays false, no refresh
\* or watch thread and no run is started, the Series, the seen sets and the
\* start time are as they were; and no run starts without both.
C31_RefusedStart ==
    [][ /\ StartFailed =>
              /\ ~model \/ ~CapOpen
              /\ ~is_inference /\ ~is_inference'
              /\ run' = run /\ rt' = rt /\ wt' = wt /\ vt' = vt
              /\ avg_areas' = avg_areas /\ avg_time_stamps' = avg_time_stamps
              /\ ng_3_times' = ng_3_times /\ ng_5_times' = ng_5_times
              /\ inference_start_time' = inference_start_time
        /\ run' # run => model /\ CapOpen
      ]_vars

\* a start was refused after a session: its source is gone, its Series kept
C31_RefusedAfterSession ==
    /\ error_boxes > 0 /\ model /\ ~CapOpen
    /\ ~is_inference /\ avg_areas # <<>> /\ inference_start_time # None

\* the frame thread takes in a frame, or aggregates a group, in this step
Processes(th) ==
    \/ vt[th].pc = "proc" /\ vt'[th].pc # "proc"
    \/ vt[th].pc = "agg" /\ vt'[th].pc # "agg"

\* C32: every frame processed and every group aggregated uses the confidence
\* threshold and the gap interval as they are set at that time.
C32_SettingsInUse ==
    [][ \A th \in VThreads :
           Processes(th) => /\ vt[th].conf_thres = confidence_var
                            /\ vt[th].nan_gap = nan_gap_var ]_vars

\* the session is over: its frame thread has ended and every callback has run
SessionOver ==
    /\ run >= 1 /\ after_queue = <<>>
    /\ video_thread # None /\ vt[video_thread].pc = "dead"
\* the log rows of the current session
SessionRows == {i \in Rows : log_file[i].run = run}

\* C33: in a gap-free session of 8 minutes with the area within 490..510 and
\* monitoring on from the start, the first warning time is before the
\* 4-minute mark, the first alert time is later than it and is seen later, and
\* exactly one log row, of duration 300, is appended during the session.
C33_NearConstantSession ==
    /\ ng_3_times # {} => SetMin(ng_3_times) < 4 * 60
    /\ ng_5_times # {} => /\ ng_3_times # {}
                          /\ SetMin(ng_5_times) > SetMin(ng_3_times)
    /\ Cardinality(SessionRows) <= 1
    /\ \A i \in SessionRows : /\ log_file[i].duration = 300
                              /\ log_file[i].t \in ng_5_times
    /\ SessionOver => /\ ng_3_times # {} /\ ng_5_times # {}
                      /\ Cardinality(SessionRows) = 1

\* the session has ended with its row written, 8 minutes after its start
C33_SessionLogged ==
    /\ SessionOver /\ Cardinality(SessionRows) = 1
    /\ now - inference_start_time >= 8 * 60
    /\ Len(avg_areas) = 24

\* the input is one positive value throughout, over at least two windows and
\* one step of the detector
ConstantPositive ==
    /\ \A i \in DOMAIN in_areas :
          in_areas[i] = in_areas[1] /\ ~IsNaN(in_areas[1])
                                   /\ RLt(RInt(0), in_areas[1])
SpansTwoWindows ==
    RLe(RInt(2 * L_sec(in_det.minutes)
               + step_size(in_det.minutes, in_det.overlap_ratio)),
        RSub(in_times[Len(in_times)], in_times[1]))
BothWindows(t) == PrevWindowAt(t) # <<>> /\ CurrWindowAt(t) # <<>>

\* C34: on a constant positive series that spans two windows and a step, the
\* result of the detector has an NG, and its entry for the first evaluation
\* time at which both windows are non-empty is NG.
C34_FlatSeriesIsNg ==
    (fn_pc = "done" /\ ConstantPositive /\ SpansTwoWindows) =>
        /\ \E i \in DOMAIN out_results : out_results[i].status = "NG"
        /\ \E t \in GridTimes :
              /\ BothWindows(t)
              /\ \A u \in GridTimes : u < t => ~BothWindows(u)
              /\ \E e \in EntriesAt(t) : out_results[e].status = "NG"
              /\ out_results[1].time_sec = t

\* the detector has run on such a series
C34_FlatSeriesChecked ==
    /\ fn_pc = "done" /\ ConstantPositive /\ SpansTwoWindows
    /\ Len(out_results) >= 2
    /\ out_results[1].status = "NG"

\* a frame thread that is inside its loop, or at its head
InLoop(th) == vt[th].pc \notin {"none", "exit", "release", "dead"}
Started(th) == vt[th].pc = "none" /\ vt'[th].pc # "none"
\* the frame thread ends in this step, releasing an open source
ReleasedBy(th) == vt[th].pc # "dead" /\ vt'[th].pc = "dead" /\ CapOpen

\* C35: at most one frame thread is inside its loop; no frame thread is
\* started while another one is; and the full stop at the end of a frame
\* thread releases a source only if that thread is the one the source was
\* opened with.
C35_OneFrameThread ==
    /\ [](\A th, u \in VThreads : (InLoop(th) /\ InLoop(u)) => th = u)
    /\ [][ \A th \in VThreads :
              /\ Started(th) => \A u \in VThreads : ~InLoop(u)
              /\ ReleasedBy(th) => th = video_thread ]_vars

\* C36: while the inference flag is true the start time is set, and it is the
\* time at which the flag was set for the current session: set together with
\* the flag and not changed while the flag stays true.
C36_StartTimeOfSession ==
    /\ [](is_inference => inference_start_time # None)
    /\ [][ /\ (~is_inference /\ is_inference') => inference_start_time' = now'
           /\ (is_inference /\ is_inference')
                 => inference_start_time' = inference_start_time ]_vars

\* C37: monitoring is enabled only while inference is on, whatever stop runs
\* against the toggle, and a new run starts with monitoring disabled.
C37_MonitoringWithinInference ==
    /\ [](is_monitoring => is_inference)
    /\ [][ run' # run => ~is_monitoring' ]_vars

\* a step that escalates: an alert time enters a seen set, a row is appended
\* to the log, or a notification (beep, report, warning window) is raised
Escalates ==
    \/ ~(ng_3_times' \subseteq ng_3_times)
    \/ ~(ng_5_times' \subseteq ng_5_times)
    \/ Len(log_file') > Len(log_file)
    \/ Len(beeps') > Len(beeps)
    \/ Len(reports') > Len(reports)
    \/ Len(warning_wins') > Len(warning_wins)

\* C38: nothing is escalated while monitoring is disabled: a detection cycle
\* or a notification that was scheduled while monitoring was enabled and runs
\* after monitoring was turned off, inference was stopped or a new session
\* was started changes no seen set, appends no log row and notifies nobody.
C38_NoEscalationWhenDisabled ==
    [][ Escalates => /\ is_monitoring /\ is_inference
                     /\ HeadIs("warn") => Head(after_queue).run = run ]_vars

\* the first k samples of a series, and the detector's input for a series:
\* smoothed with window w, then cleaned
Earlier(s, k) == SubSeq(s, 1, k)
IsPrefixOf(s, t) == Len(s) <= Len(t) /\ SubSeq(t, 1, Len(s)) = s
GapFree(areas) == \A i \in DOMAIN areas : ~IsNaN(areas[i])
DetectorInput(areas, timestamps, w) ==
    clean_data(rolling_mean(areas, w), timestamps, gap_limit_default)
AlertTimes(areas, timestamps) ==
    ToSet(extract_ng_markers(
              check_area_trend_timebased(areas, timestamps, in_det)))

\* C39: prefix stability.  The result list of a detector on the first k
\* samples of a series is a prefix of its result list on the whole series;
\* for a gap-free series and one smoothing window the detector's input on
\* the first k samples is the first k entries of its input on the whole
\* series; so the alert times of all earlier cycles together are the alert
\* times of the latest cycle.
C39_PrefixStability ==
    fn_pc = "done" =>
        /\ \A k \in 1 .. Len(in_areas) :
              IsPrefixOf(check_area_trend_timebased(Earlier(in_areas, k),
                                                    Earlier(in_times, k), in_det),
                         out_results)
        /\ GapFree(in_areas) =>
              \A w \in FnWindows : \A k \in 1 .. Len(in_areas) :
                  DetectorInput(Earlier(in_areas, k), Earlier(in_times, k), w)
                      = Earlier(DetectorInput(in_areas, in_times, w), k)
        /\ UNION {AlertTimes(Earlier(in_areas, k), Earlier(in_times, k)) :
                      k \in 1 .. Len(in_areas)}
               = ToSet(extract_ng_markers(out_results))

\* the detector has run on a gap-free series whose earlier part already gave
\* an alert, and the whole series gives more results
C39_ExtendedSeriesChecked ==
    /\ fn_pc = "done" /\ GapFree(in_areas)
    /\ \E k \in 1 .. Len(in_areas) - 1 :
          LET r == check_area_trend_timebased(Earlier(in_areas, k),
                                              Earlier(in_times, k), in_det)
          IN  /\ r # <<>> /\ Len(r) < Len(out_results)
              /\ \E i \in DOMAIN r : r[i].status = "NG"

====
